---- MODULE Spec2Model ----
(***************************************************************************)
(* Per-agent call gate and completion watcher of the OmniDim proxy         *)
(* (Backend/routes/omnidimProxy.js) and the one-by-one campaign driver of  *)
(* the browser client (AiVoiceHragent/src/components/MainFile.jsx).        *)
(*                                                                         *)
(* One action is one run-to-completion segment of a JavaScript callback:   *)
(* the code between two awaits.  Times are Date.now() values in ms.        *)
(***************************************************************************)
EXTENDS Integers, Sequences, FiniteSets, TLC

VARIABLES
  now,         \* Date.now()
  agentLocks,  \* the Map agentLocks: agent key -> entry
  req,         \* the handler instances of POST /calls/dispatch
  watch,       \* closure variables of startCompletionWatcher, per dispatch
  timers,      \* setTimeout handles created by the backend, per dispatch
  ivl,         \* setInterval handles created by the backend, per dispatch
  inflight,    \* interval callbacks suspended at an await, per watcher
  ev,          \* the last step taken (response sent, release made, client or provider step)
  grants,      \* history: dispatches admitted per agent since its last release
  relSince,    \* history: the agent of a dispatch was released after the provider answered it
  nRel,        \* history: number of POST /agent/release requests served
  cl,          \* the campaign task of the browser client
  calls,       \* the provider's calls: the number dialed and whether the call has ended
  excused      \* history: a timeout or a fallback has ended the tracking of a call

backend == <<now, agentLocks, req, watch, timers, ivl, inflight, grants, relSince, nRel>>

vars == <<now, agentLocks, req, watch, timers, ivl, inflight, ev, grants, relSince, nRel, cl, calls, excused>>

----------------------------------------------------------------------------
\* Bounds of the model

MaxReq == 2          \* dispatch requests
MaxRel == 1          \* agent/release requests
MaxTicks == 4        \* interval callbacks of one watcher
MaxInflight == 2     \* interval callbacks of one watcher suspended at once
MaxSeconds == 6      \* one-second clock steps while one watcher is followed
MaxGateTicks == 2    \* interval callbacks in all while the gate is exercised
MaxGateSeconds == 1  \* one-second clock steps while the gate is exercised
MaxPolls == 2        \* polls of one waitForCallCompletion or resolveCallLogId
MaxCalls == 1        \* dispatches the provider answers while a campaign is followed

Reqs == 1..MaxReq

\* agent_id values of request bodies; "" is a missing agent_id
AgentIds == {"51650", ""}

\* String(agent_id || 'default')
AgentKey(agent_id) == IF agent_id = "" THEN "default" ELSE agent_id

AgentKeys == {AgentKey(id) : id \in AgentIds}

----------------------------------------------------------------------------
\* Program constants (ms)

AGENT_ID == "51650"
MAX_POLL_TIME == 600000
POLL_INTERVAL == 1000
DELAY_AFTER_DISCONNECT_MS == 3000
BLOCKED_DELAY_MS == 15000
NO_ID_DELAY_MS == 30000
MAX_RETRY == 3
RESOLVE_MAX_WAIT_MS == 60000
RESOLVE_INTERVAL_MS == 3000
NON_ONGOING_STREAK == 2
CLIENT_LIST_AFTER_ONGOING_MS == 5000
CLIENT_LIST_THROTTLE_MS == 3000
CLIENT_ERROR_STREAK == 10
CLIENT_ERROR_SINCE_MS == 45000
MAX_WATCH_MS == 600000
INTERVAL_MS == 1000
NO_ID_RELEASE_MS == 3000
LIST_AFTER_ONGOING_MS == 5000
LIST_THROTTLE_MS == 3000
ERROR_STREAK_LIMIT == 10
ERROR_SINCE_MS == 45000

\* Date.now() when the process starts: far above every threshold, as an
\* epoch time is
StartTime == 1000 * INTERVAL_MS

----------------------------------------------------------------------------
\* Status strings are sequences of characters

LowerOf == [A |-> "a", B |-> "b", C |-> "c", D |-> "d", E |-> "e", F |-> "f",
            G |-> "g", H |-> "h", I |-> "i", J |-> "j", K |-> "k", L |-> "l",
            M |-> "m", N |-> "n", O |-> "o", P |-> "p", Q |-> "q", R |-> "r",
            S |-> "s", T |-> "t", U |-> "u", V |-> "v", W |-> "w", X |-> "x",
            Y |-> "y", Z |-> "z"]

\* String.prototype.toLowerCase
ToLowerCase(s) == [i \in 1..Len(s) |-> IF s[i] \in DOMAIN LowerOf THEN LowerOf[s[i]] ELSE s[i]]

WhiteSpace == {" ", "\t", "\n"}

RECURSIVE TrimStart(_)
TrimStart(s) == IF s # <<>> /\ Head(s) \in WhiteSpace THEN TrimStart(Tail(s)) ELSE s

RECURSIVE TrimEnd(_)
TrimEnd(s) == IF s # <<>> /\ s[Len(s)] \in WhiteSpace THEN TrimEnd(SubSeq(s, 1, Len(s) - 1)) ELSE s

\* String.prototype.trim
Trim(s) == TrimEnd(TrimStart(s))

\* The normalisation without trim()
NormStatus_noTrim(raw) == ToLowerCase(raw)

\* String(raw || '').toLowerCase().trim(); a missing status is <<>>
NormStatus(raw) == Trim(ToLowerCase(raw))

FINAL_STATUSES == {
  <<"c","o","m","p","l","e","t","e","d">>,
  <<"f","a","i","l","e","d">>,
  <<"b","u","s","y">>,
  <<"n","o","-","a","n","s","w","e","r">>,
  <<"n","o","_","a","n","s","w","e","r">>,
  <<"n","o","t","_","a","n","s","w","e","r","e","d">>,
  <<"c","a","n","c","e","l","e","d">>,
  <<"c","a","n","c","e","l","l","e","d">>,
  <<"h","a","n","g","u","p">>,
  <<"h","a","n","g","_","u","p">>,
  <<"e","n","d","e","d">>,
  <<"d","i","s","c","o","n","n","e","c","t","e","d">>,
  <<"f","i","n","i","s","h","e","d">>,
  <<"c","o","m","p","l","e","t","e">>,
  <<"c","o","m","p","l","e","t","e","d","_","s","u","c","c","e","s","s","f","u","l","l","y">> }

ONGOING_STATUSES == {
  <<"i","n","_","p","r","o","g","r","e","s","s">>,
  <<"i","n","-","p","r","o","g","r","e","s","s">>,
  <<"r","i","n","g","i","n","g">>,
  <<"d","i","a","l","i","n","g">>,
  <<"c","o","n","n","e","c","t","e","d">>,
  <<"l","i","v","e">>,
  <<"o","n","g","o","i","n","g">>,
  <<"a","c","t","i","v","e">>,
  <<"a","n","s","w","e","r">>,
  <<"a","n","s","w","e","r","e","d">>,
  <<"t","a","l","k","i","n","g">> }

\* MainFile.jsx, waitForCallCompletion: the client's normalisation and its
\* two sets, in the order of the source

\* String(statusRaw || '').toLowerCase().trim(); a missing status is <<>>
ClNormStatus(raw) == Trim(ToLowerCase(raw))

\* The client's Final set without the British spelling
ClFINAL_STATUSES_american == FINAL_STATUSES \ { <<"c","a","n","c","e","l","l","e","d">> }

ClFINAL_STATUSES == {
  <<"c","o","m","p","l","e","t","e","d">>,
  <<"f","a","i","l","e","d">>,
  <<"b","u","s","y">>,
  <<"n","o","-","a","n","s","w","e","r">>,
  <<"n","o","_","a","n","s","w","e","r">>,
  <<"e","n","d","e","d">>,
  <<"h","a","n","g","u","p">>,
  <<"h","a","n","g","_","u","p">>,
  <<"c","a","n","c","e","l","e","d">>,
  <<"c","a","n","c","e","l","l","e","d">>,
  <<"n","o","t","_","a","n","s","w","e","r","e","d">>,
  <<"d","i","s","c","o","n","n","e","c","t","e","d">>,
  <<"f","i","n","i","s","h","e","d">>,
  <<"c","o","m","p","l","e","t","e">>,
  <<"c","o","m","p","l","e","t","e","d","_","s","u","c","c","e","s","s","f","u","l","l","y">> }

ClONGOING_STATUSES == {
  <<"i","n","_","p","r","o","g","r","e","s","s">>,
  <<"i","n","-","p","r","o","g","r","e","s","s">>,
  <<"r","i","n","g","i","n","g">>,
  <<"d","i","a","l","i","n","g">>,
  <<"c","o","n","n","e","c","t","e","d">>,
  <<"l","i","v","e">>,
  <<"o","n","g","o","i","n","g">>,
  <<"a","c","t","i","v","e">>,
  <<"a","n","s","w","e","r">>,
  <<"a","n","s","w","e","r","e","d">>,
  <<"t","a","l","k","i","n","g">> }

\* Status values the provider's feed is made to report
RawStatuses == {
  <<>>,
  <<"r","i","n","g","i","n","g">>,
  <<"c","o","n","n","e","c","t","e","d">>,
  <<"q","u","e","u","e","d">>,
  <<"c","o","m","p","l","e","t","e","d">>,
  <<" ","C","o","m","p","l","e","t","e","d"," ">> }

----------------------------------------------------------------------------
\* The lock table

\* A key the Map does not hold; `agentLocks.get(k) || {}` reads it as {}
Absent == [present |-> FALSE, currentCallId |-> 0, startedAt |-> 0, timer |-> 0, interval |-> 0]

NoTimer == [st |-> "none", at |-> 0, kind |-> "none"]

NoWatch == [started |-> FALSE, startedAt |-> 0, seenOngoing |-> FALSE, seenOngoingAt |-> 0,
            lastListCheckAt |-> 0, consecutiveErrors |-> 0, lastSuccessAt |-> 0,
            lastTickAt |-> 0, ticks |-> 0, polls |-> 0]

NewReq == [pc |-> "new", agent |-> "default", status |-> 0, callLogId |-> 0, respAt |-> 0,
           cur |-> 0]

NoEv == [op |-> "init", r |-> 0, agent |-> "default", code |-> 0, why |-> "", cur |-> 0,
         removed |-> FALSE, status |-> <<>>, art |-> FALSE]

\* A call the provider has not been asked for
NoCall == [st |-> "none", to |-> <<>>]

\* raw.replace(/[^\d+]/g, "")
RECURSIVE DigitsOf(_)
DigitsOf(raw) ==
  IF raw = <<>> THEN <<>>
  ELSE IF Head(raw) \in {"0", "1", "2", "3", "4", "5", "6", "7", "8", "9", "+"}
       THEN <<Head(raw)>> \o DigitsOf(Tail(raw))
       ELSE DigitsOf(Tail(raw))

\* normalizePhone(raw); null is <<>>
normalizePhone(raw) ==
  LET digits == DigitsOf(raw) IN
  IF raw = <<>> \/ digits = <<>> THEN <<>>
  ELSE IF Head(digits) = "+" THEN digits ELSE <<"+">> \o digits

\* Phone columns of the rows of an uploaded CSV file
Campaigns == { << <<"5","5","-","1">>, <<"+","5","5","2">> >>,
               << <<"n","/","a">>, <<"5","5","1">> >> }

\* The local variables of waitForCallCompletion
NoWait == [callLogId |-> 0, startTime |-> 0, pollCount |-> 0, seenOngoing |-> FALSE,
           consecutiveNonOngoing |-> 0, seenOngoingAt |-> 0, lastListCheckAt |-> 0,
           errorStreak |-> 0, lastSuccessAt |-> 0, caller |-> "none"]

\* The component before handleCampaignCreate is called
NewClient(customers) ==
  [pc |-> "idle", customers |-> customers, i |-> 1, retry |-> 0, r |-> 0,
   w |-> NoWait, attempt |-> 0, resolveStart |-> 0, wakeAt |-> 0, after |-> "none",
   outstanding |-> 0,
   successful |-> 0, failed |-> 0, results |-> <<>>]

Init ==
  /\ now = StartTime
  /\ agentLocks = [k \in AgentKeys |-> Absent]
  /\ req = [r \in Reqs |-> NewReq]
  /\ watch = [r \in Reqs |-> NoWatch]
  /\ timers = [r \in Reqs |-> NoTimer]
  /\ ivl = [r \in Reqs |-> "none"]
  /\ inflight = [r \in Reqs |-> <<>>]
  /\ ev = NoEv
  /\ grants = [k \in AgentKeys |-> 0]
  /\ relSince = [r \in Reqs |-> FALSE]
  /\ nRel = 0
  /\ cl = NewClient(<<>>)
  /\ calls = [r \in Reqs |-> NoCall]
  /\ excused = FALSE

----------------------------------------------------------------------------
\* releaseAgentLock(agentId, reason), applied to a lock table L, timer
\* handles T and interval handles I

\* A release that empties the whole table
ReleasedLocks_all(L, k) == [j \in DOMAIN L |-> Absent]

\* agentLocks.delete(String(agentId))
ReleasedLocks(L, k) == [L EXCEPT ![k] = Absent]

\* The release without clearTimeout
ReleasedTimers_kept(L, T, k) == T

\* if (lock.timer) clearTimeout(lock.timer)
ReleasedTimers(L, T, k) ==
  [x \in DOMAIN T |-> IF L[k].present /\ L[k].timer = x /\ T[x].st = "pending"
                  THEN [T[x] EXCEPT !.st = "cleared"] ELSE T[x]]

\* if (lock.interval) clearInterval(lock.interval)
ReleasedIvl(L, I, k) ==
  [x \in DOMAIN I |-> IF L[k].present /\ L[k].interval = x /\ I[x] = "on"
                  THEN "cleared" ELSE I[x]]

\* History: the dispatches of agent k that the provider has answered
Answered(k) == {r \in Reqs : req[r].agent = k /\ req[r].pc = "done" /\ req[r].status = 200}

NoteRelease(k) ==
  /\ grants' = [grants EXCEPT ![k] = 0]
  /\ relSince' = [r \in DOMAIN relSince |-> relSince[r] \/ r \in Answered(k)]

\* The whole of releaseAgentLock on the current state
releaseAgentLock(k) ==
  /\ agentLocks' = ReleasedLocks(agentLocks, k)
  /\ timers' = ReleasedTimers(agentLocks, timers, k)
  /\ ivl' = ReleasedIvl(agentLocks, ivl, k)
  /\ NoteRelease(k)

----------------------------------------------------------------------------
\* POST /calls/dispatch, up to the await of the provider call

\* Dispatch requests are numbered in the order of their arrival
Arrives(r) == req[r].pc = "new" /\ \A x \in 1..(r - 1) : req[x].pc # "new"

\* The acquisition test with the reservation timestamp left out
Blocks_idOnly(existing) == existing.present /\ existing.currentCallId # 0

\* existing && (existing.currentCallId || existing.startedAt)
Blocks(existing) == existing.present /\ (existing.currentCallId # 0 \/ existing.startedAt # 0)

\* The token test placed after the acquisition
DispatchNoToken_afterLock(r, agent_id) ==
  LET k == AgentKey(agent_id) IN
  /\ Arrives(r)
  /\ agentLocks' = IF Blocks(agentLocks[k]) THEN agentLocks
                   ELSE [agentLocks EXCEPT ![k] = [Absent EXCEPT !.present = TRUE, !.startedAt = now]]
  /\ req' = [req EXCEPT ![r] = [@ EXCEPT !.pc = "done", !.agent = k, !.status = 401]]
  /\ ev' = [NoEv EXCEPT !.op = "dispatch", !.r = r, !.agent = k, !.code = 401]
  /\ UNCHANGED <<now, watch, timers, ivl, inflight, grants, relSince, nRel>>

\* if (!token) return res.status(401)
DispatchNoToken(r, agent_id) ==
  /\ Arrives(r)
  /\ req' = [req EXCEPT ![r] = [@ EXCEPT !.pc = "done", !.agent = AgentKey(agent_id), !.status = 401]]
  /\ ev' = [NoEv EXCEPT !.op = "dispatch", !.r = r, !.agent = AgentKey(agent_id), !.code = 401]
  /\ UNCHANGED <<now, agentLocks, watch, timers, ivl, inflight, grants, relSince, nRel>>

\* The 409 answer without current_call_id
DispatchBlocked_noId(r, agent_id) ==
  LET k == AgentKey(agent_id) IN
  /\ Arrives(r)
  /\ Blocks(agentLocks[k])
  /\ req' = [req EXCEPT ![r] = [@ EXCEPT !.pc = "done", !.agent = k, !.status = 409, !.cur = 0]]
  /\ ev' = [NoEv EXCEPT !.op = "dispatch", !.r = r, !.agent = k, !.code = 409, !.cur = 0]
  /\ UNCHANGED <<now, agentLocks, watch, timers, ivl, inflight, grants, relSince, nRel>>

DispatchBlocked(r, agent_id) ==
  LET k == AgentKey(agent_id) IN
  /\ Arrives(r)
  /\ Blocks(agentLocks[k])
  /\ req' = [req EXCEPT ![r] = [@ EXCEPT !.pc = "done", !.agent = k, !.status = 409,
                                         !.cur = agentLocks[k].currentCallId]]
  /\ ev' = [NoEv EXCEPT !.op = "dispatch", !.r = r, !.agent = k, !.code = 409,
                        !.cur = agentLocks[k].currentCallId]
  /\ UNCHANGED <<now, agentLocks, watch, timers, ivl, inflight, grants, relSince, nRel>>

DispatchAcquire(r, agent_id) ==
  LET k == AgentKey(agent_id) IN
  /\ Arrives(r)
  /\ ~Blocks(agentLocks[k])
  /\ agentLocks' = [agentLocks EXCEPT ![k] = [Absent EXCEPT !.present = TRUE, !.startedAt = now]]
  /\ req' = [req EXCEPT ![r] = [@ EXCEPT !.pc = "sent", !.agent = k]]
  /\ grants' = [grants EXCEPT ![k] = @ + 1]
  /\ UNCHANGED relSince
  /\ ev' = [NoEv EXCEPT !.op = "forward", !.r = r, !.agent = k]
  /\ UNCHANGED <<now, watch, timers, ivl, inflight, nRel>>

----------------------------------------------------------------------------
\* POST /calls/dispatch, after the provider call

\* The watcher with a failsafe of 10 * 60 ms
startCompletionWatcher_shortFailsafe(r) ==
  LET k == req[r].agent
      existing == agentLocks[k]
  IN
  /\ watch' = [watch EXCEPT ![r] = [NoWatch EXCEPT !.started = TRUE, !.startedAt = now,
                                                   !.lastSuccessAt = now, !.lastTickAt = now]]
  /\ timers' = [timers EXCEPT ![r] = [st |-> "pending", at |-> now + 10 * 60, kind |-> "failsafe"]]
  /\ ivl' = [ivl EXCEPT ![r] = "on"]
  /\ agentLocks' = [agentLocks EXCEPT ![k] =
        [existing EXCEPT !.present = TRUE, !.currentCallId = r, !.startedAt = now,
                         !.timer = r, !.interval = r]]

\* startCompletionWatcher(agentId, callLogId, token); the provider's
\* identifier of the call of dispatch r is r
startCompletionWatcher(r) ==
  LET k == req[r].agent
      existing == agentLocks[k]
  IN
  /\ watch' = [watch EXCEPT ![r] = [NoWatch EXCEPT !.started = TRUE, !.startedAt = now,
                                                   !.lastSuccessAt = now, !.lastTickAt = now]]
  /\ timers' = [timers EXCEPT ![r] = [st |-> "pending", at |-> now + MAX_WATCH_MS, kind |-> "failsafe"]]
  /\ ivl' = [ivl EXCEPT ![r] = "on"]
  /\ agentLocks' = [agentLocks EXCEPT ![k] =
        [existing EXCEPT !.present = TRUE, !.currentCallId = r, !.startedAt = now,
                         !.timer = r, !.interval = r]]

DispatchRespId(r) ==
  /\ req[r].pc = "sent"
  /\ startCompletionWatcher(r)
  /\ req' = [req EXCEPT ![r] = [@ EXCEPT !.pc = "done", !.status = 200, !.callLogId = r, !.respAt = now]]
  /\ ev' = [NoEv EXCEPT !.op = "dispatched", !.r = r, !.agent = req[r].agent, !.code = 200, !.cur = r]
  /\ UNCHANGED <<now, inflight, grants, relSince, nRel>>

\* The no-identifier branch with the 30 s of its comment
DispatchRespNoId_30s(r) ==
  LET k == req[r].agent
      existingLock == agentLocks[k]
  IN
  /\ req[r].pc = "sent"
  /\ timers' = [timers EXCEPT ![r] = [st |-> "pending", at |-> now + 10 * NO_ID_RELEASE_MS, kind |-> "noid"]]
  /\ agentLocks' = [agentLocks EXCEPT ![k] = [existingLock EXCEPT !.present = TRUE, !.timer = r]]
  /\ req' = [req EXCEPT ![r] = [@ EXCEPT !.pc = "done", !.status = 200, !.respAt = now]]
  /\ ev' = [NoEv EXCEPT !.op = "dispatched", !.r = r, !.agent = k, !.code = 200]
  /\ UNCHANGED <<now, watch, ivl, inflight, grants, relSince, nRel>>

DispatchRespNoId(r) ==
  LET k == req[r].agent
      existingLock == agentLocks[k]
  IN
  /\ req[r].pc = "sent"
  /\ timers' = [timers EXCEPT ![r] = [st |-> "pending", at |-> now + NO_ID_RELEASE_MS, kind |-> "noid"]]
  /\ agentLocks' = [agentLocks EXCEPT ![k] = [existingLock EXCEPT !.present = TRUE, !.timer = r]]
  /\ req' = [req EXCEPT ![r] = [@ EXCEPT !.pc = "done", !.status = 200, !.respAt = now]]
  /\ ev' = [NoEv EXCEPT !.op = "dispatched", !.r = r, !.agent = k, !.code = 200]
  /\ UNCHANGED <<now, watch, ivl, inflight, grants, relSince, nRel>>

\* HTTP statuses of a failed provider call; 0 is a failure without response
ProviderErrors == {0, 400, 503}

\* catch (error): res.status(error.response?.status || 500)
DispatchRespErr(r, status) ==
  /\ req[r].pc = "sent"
  /\ req' = [req EXCEPT ![r] = [@ EXCEPT !.pc = "done", !.status = IF status = 0 THEN 500 ELSE status]]
  /\ ev' = [NoEv EXCEPT !.op = "dispatchError", !.r = r, !.agent = req[r].agent,
                        !.code = IF status = 0 THEN 500 ELSE status]
  /\ UNCHANGED <<now, agentLocks, watch, timers, ivl, inflight, grants, relSince, nRel>>

----------------------------------------------------------------------------
\* POST /agent/release

AgentRelease(agent_id) ==
  LET k == AgentKey(agent_id) IN
  /\ nRel' = nRel + 1
  /\ releaseAgentLock(k)
  /\ ev' = [NoEv EXCEPT !.op = "release", !.agent = k, !.code = 200, !.why = "frontend_release",
                        !.removed = agentLocks[k].present]
  /\ UNCHANGED <<now, req, watch, inflight>>

----------------------------------------------------------------------------
\* setTimeout callbacks: the failsafe of a watcher and the no-identifier
\* release

TimerFire(r) ==
  LET k == req[r].agent IN
  /\ timers[r].st = "pending"
  /\ now >= timers[r].at
  /\ agentLocks' = ReleasedLocks(agentLocks, k)
  /\ timers' = [ReleasedTimers(agentLocks, timers, k) EXCEPT ![r] = [@ EXCEPT !.st = "fired"]]
  /\ ivl' = ReleasedIvl(agentLocks, ivl, k)
  /\ NoteRelease(k)
  /\ ev' = [NoEv EXCEPT !.op = "timer", !.r = r, !.agent = k,
                        !.why = IF timers[r].kind = "failsafe" THEN "timeout" ELSE "no_id_auto_release",
                        !.removed = agentLocks[k].present]
  /\ UNCHANGED <<now, req, watch, inflight, nRel>>

----------------------------------------------------------------------------
\* The setInterval callback of startCompletionWatcher

RemoveAt(s, i) == SubSeq(s, 1, i - 1) \o SubSeq(s, i + 1, Len(s))

\* A callback before its first await: the detail request goes out
Tick(r) ==
  /\ ivl[r] = "on"
  /\ now >= watch[r].lastTickAt + INTERVAL_MS
  /\ watch[r].ticks < MaxTicks
  /\ Len(inflight[r]) < MaxInflight
  /\ watch' = [watch EXCEPT ![r] = [@ EXCEPT !.lastTickAt = now, !.ticks = @ + 1]]
  /\ inflight' = [inflight EXCEPT ![r] = Append(@, [phase |-> "detail", status |-> <<>>, art |-> FALSE])]
  /\ ev' = [NoEv EXCEPT !.op = "tick", !.r = r, !.agent = req[r].agent]
  /\ UNCHANGED <<now, agentLocks, req, timers, ivl, grants, relSince, nRel>>

\* The success path that leaves the error counter as it is
AfterDetail_keepsErrors(w, status, t) ==
  LET ongoing == status # <<>> /\ status \in ONGOING_STATUSES IN
  [w EXCEPT !.seenOngoing = @ \/ ongoing,
            !.seenOngoingAt = IF ongoing /\ @ = 0 THEN t ELSE @,
            !.lastSuccessAt = t,
            !.polls = @ + 1]

\* The success path that writes seenOngoingAt at every Ongoing status
AfterDetail_restamps(w, status, t) ==
  LET ongoing == status # <<>> /\ status \in ONGOING_STATUSES IN
  [w EXCEPT !.seenOngoing = @ \/ ongoing,
            !.seenOngoingAt = IF ongoing THEN t ELSE @,
            !.consecutiveErrors = 0,
            !.lastSuccessAt = t,
            !.polls = @ + 1]

\* The success path that does not remember an Ongoing status
AfterDetail_forgets(w, status, t) ==
  LET ongoing == FALSE IN
  [w EXCEPT !.seenOngoing = @ \/ ongoing,
            !.seenOngoingAt = IF ongoing /\ @ = 0 THEN t ELSE @,
            !.consecutiveErrors = 0,
            !.lastSuccessAt = t,
            !.polls = @ + 1]

\* if (status && ONGOING_STATUSES.has(status)) ...; consecutiveErrors = 0; lastSuccessAt = Date.now()
AfterDetail(w, status, t) ==
  LET ongoing == status # <<>> /\ status \in ONGOING_STATUSES IN
  [w EXCEPT !.seenOngoing = @ \/ ongoing,
            !.seenOngoingAt = IF ongoing /\ @ = 0 THEN t ELSE @,
            !.consecutiveErrors = 0,
            !.lastSuccessAt = t,
            !.polls = @ + 1]

\* The two conditions that guard the list cross-check of the success path
WantsList(w, t) ==
  /\ w.seenOngoing /\ w.seenOngoingAt # 0 /\ (t - w.seenOngoingAt) >= LIST_AFTER_ONGOING_MS
  /\ (t - w.lastListCheckAt) >= LIST_THROTTLE_MS

\* A final test that takes every status outside the Ongoing set for final
IsFinal_notOngoing(status, art) == (status # <<>> /\ status \notin ONGOING_STATUSES) \/ art

\* The test with the status left out
IsFinal_artifactsOnly(status, art) == art

\* if (FINAL_STATUSES.has(status) || hasEndArtifacts)
IsFinal(status, art) == status \in FINAL_STATUSES \/ art

\* The end of the try block: release when final, then the callback returns.
\* viaList says that the list cross-check has already released in this segment.
FinishTick(r, i, status, art, viaList) ==
  LET k == req[r].agent IN
  /\ inflight' = [inflight EXCEPT ![r] = RemoveAt(@, i)]
  /\ IF viaList \/ IsFinal(status, art)
     THEN /\ releaseAgentLock(k)
          /\ ev' = [NoEv EXCEPT !.op = "poll", !.r = r, !.agent = k, !.status = status, !.art = art,
                                !.why = IF viaList THEN "final_status_list" ELSE "final_status",
                                !.removed = agentLocks[k].present]
     ELSE /\ UNCHANGED <<agentLocks, timers, ivl, grants, relSince>>
          /\ ev' = [NoEv EXCEPT !.op = "poll", !.r = r, !.agent = k, !.status = status, !.art = art]

\* The detail request of callback i returns 2xx
DetailOk(r, i, raw, art) ==
  LET status == NormStatus(raw)
      w1 == AfterDetail(watch[r], status, now)
  IN
  /\ i \in DOMAIN inflight[r]
  /\ inflight[r][i].phase = "detail"
  /\ IF WantsList(w1, now)
     THEN /\ watch' = [watch EXCEPT ![r] = [w1 EXCEPT !.lastListCheckAt = now]]
          /\ inflight' = [inflight EXCEPT ![r][i] = [phase |-> "list", status |-> status, art |-> art]]
          /\ ev' = [NoEv EXCEPT !.op = "list", !.r = r, !.agent = req[r].agent]
          /\ UNCHANGED <<agentLocks, timers, ivl, grants, relSince>>
     ELSE /\ watch' = [watch EXCEPT ![r] = w1]
          /\ FinishTick(r, i, status, art, FALSE)
  /\ UNCHANGED <<now, req, nRel>>

\* items.find(it => String(it?.id) === String(callLogId) || String(it?.call_log_id) === String(callLogId))
RECURSIVE FindMatch(_, _)
FindMatch(items, callLogId) ==
  IF items = <<>> THEN <<>>
  ELSE IF Head(items).id = callLogId \/ Head(items).call_log_id = callLogId THEN <<Head(items)>>
  ELSE FindMatch(Tail(items), callLogId)

\* A cross-check that takes the status of any entry of the list
ListSaysFinal_anyEntry(items, callLogId) ==
  \E j \in 1..Len(items) : NormStatus(items[j].status) \in FINAL_STATUSES

\* if (match) { listStatus = ...; if (FINAL_STATUSES.has(listStatus)) ... }
ListSaysFinal(items, callLogId) ==
  LET match == FindMatch(items, callLogId) IN
  match # <<>> /\ NormStatus(match[1].status) \in FINAL_STATUSES

\* A call of the agent that is not the watched one
OtherCall(r) == r + MaxReq

\* Lists the provider is made to return to the watcher of call r
ListSamples(r) ==
  LET done == <<"c","o","m","p","l","e","t","e","d">>
      Done == <<" ","C","o","m","p","l","e","t","e","d"," ">>
      conn == <<"c","o","n","n","e","c","t","e","d">>
  IN { <<>>,
       <<[id |-> r, call_log_id |-> 0, status |-> done]>>,
       <<[id |-> r, call_log_id |-> 0, status |-> conn]>>,
       <<[id |-> 0, call_log_id |-> r, status |-> Done]>>,
       <<[id |-> OtherCall(r), call_log_id |-> 0, status |-> done]>>,
       <<[id |-> OtherCall(r), call_log_id |-> 0, status |-> done],
         [id |-> r, call_log_id |-> 0, status |-> conn]>> }

\* The list request of the success path returns 2xx
ListOk(r, i, items) ==
  /\ i \in DOMAIN inflight[r]
  /\ inflight[r][i].phase = "list"
  /\ FinishTick(r, i, inflight[r][i].status, inflight[r][i].art, ListSaysFinal(items, r))
  /\ UNCHANGED <<now, req, watch, nRel>>

\* The list request of the success path fails: catch (e2) only logs
ListFail(r, i) ==
  /\ i \in DOMAIN inflight[r]
  /\ inflight[r][i].phase = "list"
  /\ FinishTick(r, i, inflight[r][i].status, inflight[r][i].art, FALSE)
  /\ UNCHANGED <<now, req, watch, nRel>>

\* Failures of axios.get: an HTTP status, or no response and an error code
FetchErrors == { [status |-> 503, code |-> ""], [status |-> 404, code |-> ""],
                 [status |-> 0, code |-> "ECONNRESET"], [status |-> 0, code |-> "ERR_CANCELED"] }

\* Sample codes that /ECONN|ETIMEDOUT|ENET|EAI_AGAIN|Bad Gateway|Gateway/i matches
NetworkCodes == {"ECONNRESET", "ECONNREFUSED", "ETIMEDOUT", "ENETUNREACH", "EAI_AGAIN"}

\* const is5xx = (status >= 500 && status < 600) || /.../i.test(String(code))
Is5xx(e) == (e.status >= 500 /\ e.status < 600) \/ (e.status = 0 /\ e.code \in NetworkCodes)

\* The catch (e) block whose list request does not ask for seenOngoing
DetailErr_noOngoing(r, i, e) ==
  LET w1 == [watch[r] EXCEPT !.consecutiveErrors = @ + 1] IN
  /\ i \in DOMAIN inflight[r]
  /\ inflight[r][i].phase = "detail"
  /\ IF (now - w1.lastListCheckAt) >= LIST_THROTTLE_MS /\ Is5xx(e)
     THEN /\ watch' = [watch EXCEPT ![r] = [w1 EXCEPT !.lastListCheckAt = now]]
          /\ inflight' = [inflight EXCEPT ![r][i] = [phase |-> "listE", status |-> <<>>, art |-> FALSE]]
          /\ ev' = [NoEv EXCEPT !.op = "listE", !.r = r, !.agent = req[r].agent,
                                !.code = IF Is5xx(e) THEN 5 ELSE 4]
     ELSE /\ watch' = [watch EXCEPT ![r] = w1]
          /\ inflight' = [inflight EXCEPT ![r] = RemoveAt(@, i)]
          /\ ev' = [NoEv EXCEPT !.op = "pollError", !.r = r, !.agent = req[r].agent,
                                !.code = IF Is5xx(e) THEN 5 ELSE 4]
  /\ UNCHANGED <<now, agentLocks, req, timers, ivl, grants, relSince, nRel>>

\* The detail request of callback i fails: the catch (e) block up to its await
DetailErr(r, i, e) ==
  LET w1 == [watch[r] EXCEPT !.consecutiveErrors = @ + 1] IN
  /\ i \in DOMAIN inflight[r]
  /\ inflight[r][i].phase = "detail"
  /\ IF w1.seenOngoing /\ (now - w1.lastListCheckAt) >= LIST_THROTTLE_MS /\ Is5xx(e)
     THEN /\ watch' = [watch EXCEPT ![r] = [w1 EXCEPT !.lastListCheckAt = now]]
          /\ inflight' = [inflight EXCEPT ![r][i] = [phase |-> "listE", status |-> <<>>, art |-> FALSE]]
          /\ ev' = [NoEv EXCEPT !.op = "listE", !.r = r, !.agent = req[r].agent,
                                !.code = IF Is5xx(e) THEN 5 ELSE 4]
     ELSE /\ watch' = [watch EXCEPT ![r] = w1]
          /\ inflight' = [inflight EXCEPT ![r] = RemoveAt(@, i)]
          /\ ev' = [NoEv EXCEPT !.op = "pollError", !.r = r, !.agent = req[r].agent,
                                !.code = IF Is5xx(e) THEN 5 ELSE 4]
  /\ UNCHANGED <<now, agentLocks, req, timers, ivl, grants, relSince, nRel>>

\* The list request of the error path returns 2xx
ListErrOk(r, i, items) ==
  LET k == req[r].agent IN
  /\ i \in DOMAIN inflight[r]
  /\ inflight[r][i].phase = "listE"
  /\ inflight' = [inflight EXCEPT ![r] = RemoveAt(@, i)]
  /\ IF ListSaysFinal(items, r)
     THEN /\ releaseAgentLock(k)
          /\ ev' = [NoEv EXCEPT !.op = "pollError", !.r = r, !.agent = k, !.code = 5,
                                !.why = "final_status_list_on_error", !.removed = agentLocks[k].present]
     ELSE /\ UNCHANGED <<agentLocks, timers, ivl, grants, relSince>>
          /\ ev' = [NoEv EXCEPT !.op = "pollError", !.r = r, !.agent = k, !.code = 5]
  /\ UNCHANGED <<now, req, watch, nRel>>

\* if (seenOngoing && is5xx && (consecutiveErrors >= 10 || errorSinceMs >= 45000));
\* is5xx is true wherever the list request of the error path was made
EmergencyUnlock(w, t) ==
  w.seenOngoing /\ (w.consecutiveErrors >= ERROR_STREAK_LIMIT \/ (t - w.lastSuccessAt) >= ERROR_SINCE_MS)

\* The list request of the error path fails: the catch (e3) block
ListErrFail(r, i) ==
  LET k == req[r].agent IN
  /\ i \in DOMAIN inflight[r]
  /\ inflight[r][i].phase = "listE"
  /\ inflight' = [inflight EXCEPT ![r] = RemoveAt(@, i)]
  /\ IF EmergencyUnlock(watch[r], now)
     THEN /\ releaseAgentLock(k)
          /\ ev' = [NoEv EXCEPT !.op = "pollError", !.r = r, !.agent = k, !.code = 5,
                                !.why = "api_error_fallback", !.removed = agentLocks[k].present]
     ELSE /\ UNCHANGED <<agentLocks, timers, ivl, grants, relSince>>
          /\ ev' = [NoEv EXCEPT !.op = "pollError", !.r = r, !.agent = k, !.code = 5]
  /\ UNCHANGED <<now, req, watch, nRel>>

----------------------------------------------------------------------------
\* The provider: a dispatched call is active until it ends; its status feed
\* reports a Final status, or end artifacts, only for a call that has ended

Queued == <<"q","u","e","u","e","d">>

Ringing == <<"r","i","n","g","i","n","g">>

Completed == <<"c","o","m","p","l","e","t","e","d">>

\* The detail record of call c: its status and whether it has end artifacts
Feed(c) ==
  IF c \notin Reqs \/ calls[c].st = "none" THEN {}
  ELSE IF calls[c].st = "active"
       THEN {[status |-> s, art |-> FALSE] : s \in {<<>>, Queued, Ringing}}
       ELSE {[status |-> Completed, art |-> FALSE], [status |-> Ringing, art |-> TRUE]}

\* The calls of the agent that the provider lists, the latest first
PlacedCalls == {c \in Reqs : calls[c].st # "none"}

RECURSIVE ListsOf(_)
ListsOf(C) ==
  IF C = {} THEN {<<>>}
  ELSE LET c == CHOOSE x \in C : \A y \in C : y <= x IN
       {<<[id |-> c, call_log_id |-> 0, status |-> f.status, to_number |-> calls[c].to]>> \o rest :
          f \in Feed(c), rest \in ListsOf(C \ {c})}

\* The list, which may not show the latest call yet
ProviderLists ==
  ListsOf(PlacedCalls) \cup
  (IF PlacedCalls = {} THEN {}
   ELSE ListsOf(PlacedCalls \ {CHOOSE x \in PlacedCalls : \A y \in PlacedCalls : y <= x}))

\* The provider hangs up
EndCall(c) ==
  /\ calls[c].st = "active"
  /\ calls' = [calls EXCEPT ![c] = [@ EXCEPT !.st = "ended"]]
  /\ ev' = [NoEv EXCEPT !.op = "provider", !.r = c]
  /\ UNCHANGED <<backend, cl, excused>>

----------------------------------------------------------------------------
\* MainFile.jsx: the one-by-one loop of handleCampaignCreate

\* A step of the client that sends the backend nothing
ClientStep ==
  /\ ev' = [NoEv EXCEPT !.op = "client"]
  /\ UNCHANGED backend

\* const phoneNormalized = normalizePhone(customer.phone)
PhoneOf(c) == normalizePhone(c.customers[c.i])

\* summary.results.push({ index: i + 1, ..., status })
Recorded(c, status) == Append(c.results, [index |-> c.i, status |-> status])

\* A loop that leaves out every other row
NextRow_twoAhead(c) == [c EXCEPT !.pc = "loop", !.i = @ + 2, !.retry = 0, !.w = NoWait]

\* The loop moves on to the next row
NextRow(c) == [c EXCEPT !.pc = "loop", !.i = @ + 1, !.retry = 0, !.w = NoWait]

\* A catch (err) that ends the campaign
Failed_aborts(c) ==
  [c EXCEPT !.pc = "finished", !.failed = @ + 1, !.results = Recorded(c, "failed")]

\* catch (err) of the loop body
Failed(c) == NextRow([c EXCEPT !.failed = @ + 1, !.results = Recorded(c, "failed")])

\* await new Promise(res => setTimeout(res, ms)), then the code at label after
Sleep(c, ms, after) == [c EXCEPT !.pc = "sleep", !.wakeAt = now + ms, !.after = after]

\* waitForCallCompletion(callLogId) is entered
StartWait(c, callLogId, caller) ==
  [c EXCEPT !.pc = "wait",
            !.w = [NoWait EXCEPT !.callLogId = callLogId, !.startTime = now,
                                 !.lastSuccessAt = now, !.caller = caller]]

\* A 409 branch that allows one more retry
AfterBlocked_oneMore(c) ==
  IF c.retry <= MAX_RETRY
  THEN [c EXCEPT !.pc = "dispatch", !.retry = @ + 1, !.w = NoWait]
  ELSE Failed(c)

\* The 409 branch of dispatchSingleCall after its wait: retry or throw
AfterBlocked(c) ==
  IF c.retry < MAX_RETRY
  THEN [c EXCEPT !.pc = "dispatch", !.retry = @ + 1, !.w = NoWait]
  ELSE Failed(c)

\* A loop body that throws on the inconclusive result
WaitReturns_nullFails(c, v) ==
  IF c.w.caller = "campaign"
  THEN IF v # "null"
       THEN [c EXCEPT !.pc = "release", !.after = "cooldown", !.w = NoWait,
                      !.successful = @ + 1, !.results = Recorded(c, "completed")]
       ELSE Failed(c)
  ELSE AfterBlocked(c)

\* waitForCallCompletion returns; v is "data", "fallback" or "null"
WaitReturns(c, v) ==
  IF c.w.caller = "campaign"
  THEN IF v # "null"
       THEN [c EXCEPT !.pc = "release", !.after = "cooldown", !.w = NoWait,
                      !.successful = @ + 1, !.results = Recorded(c, "completed")]
       ELSE [c EXCEPT !.pc = "release", !.after = "next", !.w = NoWait,
                      !.successful = @ + 1, !.results = Recorded(c, "unknown")]
  ELSE AfterBlocked(c)

\* handleCampaignCreate is called with the rows of the uploaded file
ClStart(customers) ==
  /\ cl.pc = "idle"
  /\ cl' = [NewClient(customers) EXCEPT !.pc = "loop"]
  /\ ClientStep
  /\ UNCHANGED <<calls, excused>>

\* i < customers.length is false: the summary is shown
ClEnd ==
  /\ cl.pc = "loop"
  /\ cl.i > Len(cl.customers)
  /\ cl' = [cl EXCEPT !.pc = "finished"]
  /\ ClientStep
  /\ UNCHANGED <<calls, excused>>

\* if (!phoneNormalized) { summary.failed++; ...; continue }
ClSkip ==
  /\ cl.pc = "loop"
  /\ cl.i <= Len(cl.customers)
  /\ PhoneOf(cl) = <<>>
  /\ cl' = NextRow([cl EXCEPT !.failed = @ + 1, !.results = Recorded(cl, "skipped")])
  /\ ClientStep
  /\ UNCHANGED <<calls, excused>>

\* dispatchSingleCall posts /calls/dispatch and the backend handles the
\* request up to its answer or its provider call
ClDispatch(r) ==
  /\ \/ cl.pc = "loop" /\ cl.i <= Len(cl.customers) /\ PhoneOf(cl) # <<>>
     \/ cl.pc = "dispatch"
  /\ DispatchBlocked(r, AGENT_ID) \/ DispatchAcquire(r, AGENT_ID)
  /\ cl' = [cl EXCEPT !.pc = "awaitDispatch", !.r = r, !.outstanding = @ + 1]
  /\ UNCHANGED <<calls, excused>>

\* The response of /calls/dispatch arrives
ClDispatchResult ==
  LET resp == req[cl.r]
      c == [cl EXCEPT !.outstanding = @ - 1]
  IN
  /\ cl.pc = "awaitDispatch"
  /\ resp.pc = "done"
  /\ cl' = IF resp.status = 200
           THEN IF resp.callLogId # 0
                THEN StartWait(c, resp.callLogId, "campaign")
                ELSE [c EXCEPT !.pc = "resolve", !.resolveStart = now, !.attempt = 0]
           ELSE IF resp.status = 409
                THEN IF resp.cur # 0
                     THEN StartWait(c, resp.cur, "retry")
                     ELSE Sleep(c, BLOCKED_DELAY_MS, "blocked")
                ELSE Failed(c)
  /\ ClientStep
  /\ UNCHANGED <<calls, excused>>

\* The timer of a sleep fires
ClWake ==
  /\ cl.pc = "sleep"
  /\ now >= cl.wakeAt
  /\ cl' = CASE cl.after = "wait" -> [cl EXCEPT !.pc = "wait"]
             [] cl.after = "resolve" -> [cl EXCEPT !.pc = "resolve"]
             [] cl.after = "next" -> NextRow(cl)
             [] cl.after = "blocked" -> AfterBlocked(cl)
             [] cl.after = "noid" ->
                  [cl EXCEPT !.pc = "release", !.after = "next", !.successful = @ + 1,
                             !.results = Recorded(cl, "no_id")]
  /\ ClientStep
  /\ UNCHANGED <<calls, excused>>

\* The status tests of a successful poll, from ONGOING_STATUSES.has(status)
\* to the two confirmation streaks
AfterPoll(w, status, t) ==
  LET ongoing == status \in ClONGOING_STATUSES
      w1 == [w EXCEPT !.pollCount = @ + 1, !.errorStreak = 0, !.lastSuccessAt = t,
                      !.seenOngoingAt = IF ongoing /\ ~w.seenOngoing THEN t ELSE @,
                      !.seenOngoing = @ \/ ongoing,
                      !.consecutiveNonOngoing = IF ongoing THEN 0 ELSE @]
  IN
  IF (status # <<>> /\ ~ongoing) \/ (status = <<>> /\ w1.seenOngoing)
  THEN [w1 EXCEPT !.consecutiveNonOngoing = @ + 1]
  ELSE w1

\* The returns of a successful poll before the list cross-check
PollFinished(w, status, art) ==
  \/ status \in ClFINAL_STATUSES
  \/ art
  \/ w.consecutiveNonOngoing >= NON_ONGOING_STREAK

\* The two conditions that guard the client's list cross-check
ClWantsList(w, t) ==
  /\ w.seenOngoing /\ w.seenOngoingAt # 0 /\ t - w.seenOngoingAt >= CLIENT_LIST_AFTER_ONGOING_MS
  /\ t - w.lastListCheckAt >= CLIENT_LIST_THROTTLE_MS

\* One pass of the polling loop whose detail request returns 2xx
ClPollOk(raw, art) ==
  LET status == ClNormStatus(raw)
      w1 == AfterPoll(cl.w, status, now)
  IN
  /\ cl.pc = "wait"
  /\ now - cl.w.startTime < MAX_POLL_TIME
  /\ cl.w.pollCount < MaxPolls
  /\ [status |-> raw, art |-> art] \in Feed(cl.w.callLogId)
  /\ cl' = IF PollFinished(w1, status, art) THEN WaitReturns([cl EXCEPT !.w = w1], "data")
           ELSE IF ClWantsList(w1, now)
                THEN [cl EXCEPT !.pc = "waitList", !.w = [w1 EXCEPT !.lastListCheckAt = now]]
                ELSE Sleep([cl EXCEPT !.w = w1], POLL_INTERVAL, "wait")
  /\ ClientStep
  /\ UNCHANGED <<calls, excused>>

\* The list request of the client's cross-check returns 2xx
ClListOk(items) ==
  LET match == FindMatch(items, cl.w.callLogId)
      listStatus == IF match = <<>> THEN <<>> ELSE ClNormStatus(match[1].status)
      streak == listStatus # <<>> /\ listStatus \notin ClONGOING_STATUSES
      w1 == IF streak THEN [cl.w EXCEPT !.consecutiveNonOngoing = @ + 1] ELSE cl.w
  IN
  /\ cl.pc = "waitList"
  /\ items \in ProviderLists
  /\ cl' = IF listStatus \in ClFINAL_STATUSES \/ (streak /\ w1.consecutiveNonOngoing >= NON_ONGOING_STREAK)
           THEN WaitReturns([cl EXCEPT !.w = w1], "data")
           ELSE Sleep([cl EXCEPT !.w = w1], POLL_INTERVAL, "wait")
  /\ ClientStep
  /\ UNCHANGED <<calls, excused>>

\* The list request of the client's cross-check fails: catch (e) only logs
ClListFail ==
  /\ cl.pc = "waitList"
  /\ cl' = Sleep(cl, POLL_INTERVAL, "wait")
  /\ ClientStep
  /\ UNCHANGED <<calls, excused>>

\* if (seenOngoing && (errorStreak >= 10 || sinceMs >= 45000))
ClFallback(w, t) ==
  w.seenOngoing /\ (w.errorStreak >= CLIENT_ERROR_STREAK \/ t - w.lastSuccessAt >= CLIENT_ERROR_SINCE_MS)

\* One pass of the polling loop whose detail request fails, with any HTTP
\* status or with none
ClPollErr ==
  LET w1 == [cl.w EXCEPT !.pollCount = @ + 1, !.errorStreak = @ + 1] IN
  /\ cl.pc = "wait"
  /\ now - cl.w.startTime < MAX_POLL_TIME
  /\ cl.w.pollCount < MaxPolls
  /\ IF ClFallback(w1, now)
     THEN /\ cl' = WaitReturns([cl EXCEPT !.w = w1], "fallback")
          /\ excused' = TRUE
     ELSE /\ cl' = Sleep([cl EXCEPT !.w = w1], POLL_INTERVAL, "wait")
          /\ UNCHANGED excused
  /\ ClientStep
  /\ UNCHANGED calls

\* while (Date.now() - startTime < MAX_POLL_TIME) ends: return null
ClTimeout ==
  /\ cl.pc = "wait"
  /\ now - cl.w.startTime >= MAX_POLL_TIME
  /\ cl' = WaitReturns(cl, "null")
  /\ excused' = TRUE
  /\ ClientStep
  /\ UNCHANGED calls

\* arr.find(c => normalizePhone(c?.to_number) === target)
RECURSIVE FindNumber(_, _)
FindNumber(arr, target) ==
  IF arr = <<>> THEN <<>>
  ELSE IF normalizePhone(Head(arr).to_number) = target THEN <<Head(arr)>>
  ELSE FindNumber(Tail(arr), target)

\* One pass of the loop of resolveCallLogId whose list request returns 2xx
ClResolveOk(arr) ==
  LET match == FindNumber(arr, normalizePhone(PhoneOf(cl))) IN
  /\ cl.pc = "resolve"
  /\ now - cl.resolveStart < RESOLVE_MAX_WAIT_MS
  /\ cl.attempt < MaxPolls
  /\ arr \in ProviderLists
  /\ cl' = IF match # <<>> /\ match[1].id # 0
           THEN StartWait([cl EXCEPT !.attempt = @ + 1], match[1].id, "campaign")
           ELSE Sleep([cl EXCEPT !.attempt = @ + 1], RESOLVE_INTERVAL_MS, "resolve")
  /\ ClientStep
  /\ UNCHANGED <<calls, excused>>

\* One pass of the loop of resolveCallLogId whose list request fails
ClResolveErr ==
  /\ cl.pc = "resolve"
  /\ now - cl.resolveStart < RESOLVE_MAX_WAIT_MS
  /\ cl.attempt < MaxPolls
  /\ cl' = Sleep([cl EXCEPT !.attempt = @ + 1], RESOLVE_INTERVAL_MS, "resolve")
  /\ ClientStep
  /\ UNCHANGED <<calls, excused>>

\* The no-identifier case with the cooldown in place of the 30 s wait
ClResolveTimeout_cooldown ==
  /\ cl.pc = "resolve"
  /\ now - cl.resolveStart >= RESOLVE_MAX_WAIT_MS
  /\ cl' = Sleep(cl, DELAY_AFTER_DISCONNECT_MS, "noid")
  /\ excused' = TRUE
  /\ ClientStep
  /\ UNCHANGED calls

\* resolveCallLogId returns null: the 30 s wait of the no-identifier case
ClResolveTimeout ==
  /\ cl.pc = "resolve"
  /\ now - cl.resolveStart >= RESOLVE_MAX_WAIT_MS
  /\ cl' = Sleep(cl, NO_ID_DELAY_MS, "noid")
  /\ excused' = TRUE
  /\ ClientStep
  /\ UNCHANGED calls

\* What follows await releaseAgentLockBackend()
AfterRelease(c) ==
  IF c.after = "cooldown" THEN Sleep(c, DELAY_AFTER_DISCONNECT_MS, "next") ELSE NextRow(c)

\* releaseAgentLockBackend(): the backend serves POST /agent/release
ClRelease ==
  /\ cl.pc = "release"
  /\ AgentRelease(AGENT_ID)
  /\ cl' = AfterRelease(cl)
  /\ UNCHANGED <<calls, excused>>

\* releaseAgentLockBackend(): the request fails and catch (e) only warns
ClReleaseFails ==
  /\ cl.pc = "release"
  /\ cl' = AfterRelease(cl)
  /\ ClientStep
  /\ UNCHANGED <<calls, excused>>

----------------------------------------------------------------------------
\* Time

\* Deadlines of the pending setTimeout handles
TimerDeadlines == {timers[r].at : r \in {x \in Reqs : timers[x].st = "pending"}}

\* Instants at which the error path's 45-second test turns true
SilenceDeadlines == {watch[r].lastSuccessAt + ERROR_SINCE_MS : r \in {x \in Reqs : ivl[x] = "on"}}

\* Date.now() moves on by one poll period, or the process idles until the
\* next deadline; a pending timeout is not overslept
Advance(t) ==
  /\ t > now
  /\ \A d \in TimerDeadlines : t <= d
  /\ now' = t
  /\ ev' = [NoEv EXCEPT !.op = "time"]
  /\ UNCHANGED <<agentLocks, req, watch, timers, ivl, inflight, grants, relSince, nRel>>

----------------------------------------------------------------------------
\* The instant one poll period ahead, within the first n seconds
NextSecond(n) == {t \in {now + INTERVAL_MS} : t <= StartTime + n * INTERVAL_MS}

RECURSIVE TicksOf(_)
TicksOf(R) == IF R = {} THEN 0 ELSE LET r == CHOOSE x \in R : TRUE IN watch[r].ticks + TicksOf(R \ {r})

----------------------------------------------------------------------------
\* The client, the provider's calls and the history of fallbacks stay as
\* they are
Idle == UNCHANGED <<cl, calls, excused>>

----------------------------------------------------------------------------
\* The gate under arbitrary clients and provider answers

Next ==
  \/ \E r \in Reqs, a \in AgentIds : DispatchNoToken(r, a) /\ Idle
  \/ \E r \in Reqs, a \in AgentIds : DispatchBlocked(r, a) /\ Idle
  \/ \E r \in Reqs, a \in AgentIds : DispatchAcquire(r, a) /\ Idle
  \/ \E r \in Reqs : DispatchRespId(r) /\ Idle
  \/ \E r \in Reqs : DispatchRespNoId(r) /\ Idle
  \/ \E r \in Reqs, s \in ProviderErrors : DispatchRespErr(r, s) /\ Idle
  \/ \E a \in AgentIds : nRel < MaxRel /\ AgentRelease(a) /\ Idle
  \/ \E r \in Reqs : TimerFire(r) /\ Idle
  \/ \E r \in Reqs : TicksOf(Reqs) < MaxGateTicks /\ Tick(r) /\ Idle
  \/ \E r \in Reqs, i \in 1..MaxInflight, raw \in RawStatuses, art \in BOOLEAN : DetailOk(r, i, raw, art) /\ Idle
  \/ \E r \in Reqs, i \in 1..MaxInflight : \E items \in ListSamples(r) : ListOk(r, i, items) /\ Idle
  \/ \E r \in Reqs, i \in 1..MaxInflight : ListFail(r, i) /\ Idle
  \/ \E r \in Reqs, i \in 1..MaxInflight, e \in FetchErrors : DetailErr(r, i, e) /\ Idle
  \/ \E r \in Reqs, i \in 1..MaxInflight : \E items \in ListSamples(r) : ListErrOk(r, i, items) /\ Idle
  \/ \E r \in Reqs, i \in 1..MaxInflight : ListErrFail(r, i) /\ Idle
  \/ \E t \in NextSecond(MaxGateSeconds) \cup TimerDeadlines : Advance(t) /\ Idle

Spec == Init /\ [][Next]_vars

----------------------------------------------------------------------------
\* One dispatch with identifier and its watcher, followed poll by poll: the
\* clock starts with the watcher and every poll is answered before the next
\* tick

TheAgent == AGENT_ID

NextWatch ==
  \/ DispatchAcquire(1, TheAgent) /\ Idle
  \/ DispatchRespId(1) /\ Idle
  \/ TimerFire(1) /\ Idle
  \/ watch[1].ticks < MaxTicks /\ inflight[1] = <<>> /\ Tick(1) /\ Idle
  \/ \E i \in 1..MaxInflight, raw \in RawStatuses, art \in BOOLEAN : DetailOk(1, i, raw, art) /\ Idle
  \/ \E i \in 1..MaxInflight, items \in ListSamples(1) : ListOk(1, i, items) /\ Idle
  \/ \E i \in 1..MaxInflight : ListFail(1, i) /\ Idle
  \/ \E i \in 1..MaxInflight, e \in FetchErrors : DetailErr(1, i, e) /\ Idle
  \/ \E i \in 1..MaxInflight, items \in ListSamples(1) : ListErrOk(1, i, items) /\ Idle
  \/ \E i \in 1..MaxInflight : ListErrFail(1, i) /\ Idle
  \/ \E t \in NextSecond(MaxSeconds) \cup TimerDeadlines \cup SilenceDeadlines : watch[1].started /\ Advance(t) /\ Idle

SpecWatch == Init /\ [][NextWatch]_vars

----------------------------------------------------------------------------
\* One dispatch with each of the provider's answers and no release request,
\* under fair scheduling: a sent request is answered, a due timer and a due
\* interval callback run, and time passes

NextLive ==
  \/ DispatchAcquire(1, TheAgent) /\ Idle
  \/ DispatchRespId(1) /\ Idle
  \/ DispatchRespNoId(1) /\ Idle
  \/ \E s \in ProviderErrors : DispatchRespErr(1, s) /\ Idle
  \/ TimerFire(1) /\ Idle
  \/ watch[1].ticks < MaxTicks /\ inflight[1] = <<>> /\ Tick(1) /\ Idle
  \/ \E i \in 1..MaxInflight, raw \in RawStatuses, art \in BOOLEAN : DetailOk(1, i, raw, art) /\ Idle
  \/ \E i \in 1..MaxInflight, items \in ListSamples(1) : ListOk(1, i, items) /\ Idle
  \/ \E i \in 1..MaxInflight : ListFail(1, i) /\ Idle
  \/ \E i \in 1..MaxInflight, e \in FetchErrors : DetailErr(1, i, e) /\ Idle
  \/ \E i \in 1..MaxInflight, items \in ListSamples(1) : ListErrOk(1, i, items) /\ Idle
  \/ \E i \in 1..MaxInflight : ListErrFail(1, i) /\ Idle
  \/ \E t \in NextSecond(MaxSeconds) \cup TimerDeadlines \cup SilenceDeadlines : req[1].pc # "new" /\ Advance(t) /\ Idle

ProviderAnswers ==
  /\ UNCHANGED <<cl, calls, excused>>
  /\ \/ DispatchRespId(1) \/ DispatchRespNoId(1) \/ \E s \in ProviderErrors : DispatchRespErr(1, s)
     \/ \E i \in 1..MaxInflight, raw \in RawStatuses, art \in BOOLEAN : DetailOk(1, i, raw, art)
     \/ \E i \in 1..MaxInflight, items \in ListSamples(1) : ListOk(1, i, items)
     \/ \E i \in 1..MaxInflight : ListFail(1, i)
     \/ \E i \in 1..MaxInflight, e \in FetchErrors : DetailErr(1, i, e)
     \/ \E i \in 1..MaxInflight, items \in ListSamples(1) : ListErrOk(1, i, items)
     \/ \E i \in 1..MaxInflight : ListErrFail(1, i)

TimePasses ==
  /\ UNCHANGED <<cl, calls, excused>>
  /\ \E t \in NextSecond(MaxSeconds) \cup TimerDeadlines \cup SilenceDeadlines :
        req[1].pc # "new" /\ Advance(t)

SpecLive ==
  /\ Init /\ [][NextLive]_vars
  /\ WF_vars(ProviderAnswers)
  /\ WF_vars(TimerFire(1) /\ UNCHANGED <<cl, calls, excused>>)
  /\ WF_vars(watch[1].ticks < MaxTicks /\ inflight[1] = <<>> /\ Tick(1) /\ UNCHANGED <<cl, calls, excused>>)
  /\ WF_vars(TimePasses)

----------------------------------------------------------------------------
\* One campaign client, the backend and the provider. The provider answers
\* the first MaxCalls dispatches; the client's sleeps and the watchers' polls
\* run when they are due, and a watcher is followed for its first polls, one
\* per second, which end before the list cross-check of its success path can
\* start.

\* The provider answers dispatch r with an identifier: the call is placed
SysRespId(r) ==
  /\ r <= MaxCalls
  /\ DispatchRespId(r)
  /\ calls' = [calls EXCEPT ![r] = [st |-> "active", to |-> PhoneOf(cl)]]
  /\ UNCHANGED <<cl, excused>>

\* The provider answers dispatch r without identifier: the call is placed
SysRespNoId(r) ==
  /\ r <= MaxCalls
  /\ DispatchRespNoId(r)
  /\ calls' = [calls EXCEPT ![r] = [st |-> "active", to |-> PhoneOf(cl)]]
  /\ excused' = TRUE
  /\ UNCHANGED cl

\* The backend's releases that are no observation of the end of the call
Fallbacks == {"timeout", "no_id_auto_release", "api_error_fallback"}

\* Instants at which a waiting client or watcher changes its decision
SysDeadlines ==
  TimerDeadlines \cup SilenceDeadlines
  \cup {watch[r].seenOngoingAt + LIST_AFTER_ONGOING_MS : r \in {x \in Reqs : ivl[x] = "on" /\ watch[x].seenOngoing}}
  \cup {watch[r].lastTickAt + INTERVAL_MS : r \in {x \in Reqs : ivl[x] = "on" /\ TicksOf(Reqs) < MaxGateTicks}}
  \cup (IF cl.pc = "sleep" THEN {cl.wakeAt} ELSE {})
  \cup (IF cl.w.caller # "none"
        THEN {cl.w.startTime + MAX_POLL_TIME, cl.w.lastSuccessAt + CLIENT_ERROR_SINCE_MS}
             \cup (IF cl.w.seenOngoing THEN {cl.w.seenOngoingAt + CLIENT_LIST_AFTER_ONGOING_MS} ELSE {})
        ELSE {})
  \cup (IF cl.pc = "resolve" \/ (cl.pc = "sleep" /\ cl.after = "resolve")
        THEN {cl.resolveStart + RESOLVE_MAX_WAIT_MS} ELSE {})

\* The process idles until the next of these instants
NextDeadline == {t \in SysDeadlines : t > now /\ \A d \in SysDeadlines : d > now => t <= d}

\* A sleep of the client or a poll of a watcher is due now, or the provider
\* is about to answer a watcher
Due ==
  \/ cl.pc = "sleep" /\ now >= cl.wakeAt
  \/ \E r \in Reqs : inflight[r] # <<>>
  \/ \E r \in Reqs : /\ ivl[r] = "on" /\ now >= watch[r].lastTickAt + INTERVAL_MS
                      /\ TicksOf(Reqs) < MaxGateTicks /\ inflight[r] = <<>>

\* The failure of a request to the provider
Unavailable == [status |-> 503, code |-> ""]

\* A step of the backend that the client takes no part in: a release that
\* is no observation of the end of the call is remembered
Unobserved ==
  /\ excused' = (excused \/ ev'.why \in Fallbacks)
  /\ UNCHANGED <<cl, calls>>

NextSys ==
  \/ \E c \in Campaigns : ClStart(c)
  \/ ClEnd
  \/ ClSkip
  \/ \E r \in Reqs : ClDispatch(r)
  \/ ClDispatchResult
  \/ ClWake
  \/ \E raw \in {<<>>, Queued, Ringing, Completed}, art \in BOOLEAN : ClPollOk(raw, art)
  \/ \E items \in ProviderLists : ClListOk(items)
  \/ ClListFail
  \/ ClPollErr
  \/ ClTimeout
  \/ \E arr \in ProviderLists : ClResolveOk(arr)
  \/ ClResolveErr
  \/ ClResolveTimeout
  \/ ClRelease
  \/ ClReleaseFails
  \/ \E r \in Reqs : SysRespId(r)
  \/ \E r \in Reqs : SysRespNoId(r)
  \/ \E c \in Reqs : EndCall(c)
  \/ \E r \in Reqs : r <= MaxCalls /\ DispatchRespErr(r, Unavailable.status) /\ Unobserved
  \/ \E r \in Reqs : TimerFire(r) /\ Unobserved
  \/ \E r \in Reqs : TicksOf(Reqs) < MaxGateTicks /\ inflight[r] = <<>> /\ Tick(r) /\ Unobserved
  \/ \E r \in Reqs, i \in 1..MaxInflight : \E f \in Feed(r) : DetailOk(r, i, f.status, f.art) /\ Unobserved
  \/ \E r \in Reqs, i \in 1..MaxInflight : DetailErr(r, i, Unavailable) /\ Unobserved
  \/ \E r \in Reqs, i \in 1..MaxInflight : \E items \in ProviderLists : ListErrOk(r, i, items) /\ Unobserved
  \/ \E r \in Reqs, i \in 1..MaxInflight : ListErrFail(r, i) /\ Unobserved
  \/ \E t \in NextDeadline : ~Due /\ Advance(t) /\ Unobserved

SpecSys == Init /\ [][NextSys]_vars

----------------------------------------------------------------------------
\* One watcher fed with every token of the two status sets, as listed, in
\* capitals and with white space around it

UpperOf(c) ==
  IF \E u \in DOMAIN LowerOf : LowerOf[u] = c
  THEN CHOOSE u \in DOMAIN LowerOf : LowerOf[u] = c
  ELSE c

ToUpperCase(s) == [i \in 1..Len(s) |-> UpperOf(s[i])]

\* Spellings of a token that the provider may send
Variants(tok) ==
  { tok,
    ToUpperCase(tok),
    <<" ">> \o tok \o <<"\n">>,
    <<"\t">> \o <<UpperOf(tok[1])>> \o Tail(tok) \o <<" ", " ">> }

TokenVariants ==
  UNION {Variants(tok) : tok \in FINAL_STATUSES \cup ONGOING_STATUSES} \cup {<<>>, Queued}

NextTokens ==
  \/ DispatchAcquire(1, TheAgent) /\ Idle
  \/ DispatchRespId(1) /\ Idle
  \/ watch[1].ticks < MaxGateTicks /\ inflight[1] = <<>> /\ Tick(1) /\ Idle
  \/ \E raw \in TokenVariants, art \in BOOLEAN : DetailOk(1, 1, raw, art) /\ Idle
  \/ \E items \in ListSamples(1) : ListOk(1, 1, items) /\ Idle
  \/ ListFail(1, 1) /\ Idle
  \/ \E t \in NextSecond(MaxSeconds) : watch[1].started /\ Advance(t) /\ Idle

SpecTokens == Init /\ [][NextTokens]_vars

----------------------------------------------------------------------------
\* A campaign that is started while another session's dispatch holds the
\* lock of the agent: request 1 is that dispatch, the later requests are the
\* attempts of the campaign client. The provider answers request 1 only, and
\* it answers the first MaxPolls detail requests of a completion wait of the
\* client at once, which end before the client's list cross-check can start.

MaxSlots == 6

Slots == 1..MaxSlots

\* The state after construction, with room for MaxSlots requests
InitRetry ==
  /\ now = StartTime
  /\ agentLocks = [k \in AgentKeys |-> Absent]
  /\ req = [r \in Slots |-> NewReq]
  /\ watch = [r \in Slots |-> NoWatch]
  /\ timers = [r \in Slots |-> NoTimer]
  /\ ivl = [r \in Slots |-> "none"]
  /\ inflight = [r \in Slots |-> <<>>]
  /\ ev = NoEv
  /\ grants = [k \in AgentKeys |-> 0]
  /\ relSince = [r \in Slots |-> FALSE]
  /\ nRel = 0
  /\ cl = NewClient(<<>>)
  /\ calls = [r \in Slots |-> NoCall]
  /\ excused = FALSE

\* to_number of the other session's request
HolderNumber == <<"+", "5", "5", "9">>

\* The provider answers the other session's dispatch with an identifier
HolderRespId ==
  /\ DispatchRespId(1)
  /\ calls' = [calls EXCEPT ![1] = [st |-> "active", to |-> HolderNumber]]
  /\ UNCHANGED <<cl, excused>>

\* The client has sent a detail request that the provider answers at once
PollDue == cl.pc = "wait" /\ cl.w.pollCount < MaxPolls /\ now - cl.w.startTime < MAX_POLL_TIME

NextRetry ==
  \/ cl.pc = "idle" /\ DispatchAcquire(1, AGENT_ID) /\ Idle
  \/ HolderRespId
  \/ EndCall(1)
  \/ \E c \in Campaigns : agentLocks[TheAgent].present /\ ClStart(c)
  \/ ClEnd
  \/ ClSkip
  \/ \E r \in Slots : ClDispatch(r)
  \/ ClDispatchResult
  \/ ClWake
  \/ \E raw \in {<<>>, Queued, Ringing, Completed}, art \in BOOLEAN : ClPollOk(raw, art)
  \/ ClPollErr
  \/ ClTimeout
  \/ \E r \in Slots \ {1} : DispatchRespErr(r, Unavailable.status) /\ Unobserved
  \/ TimerFire(1) /\ Unobserved
  \/ watch[1].ticks < MaxGateTicks /\ inflight[1] = <<>> /\ Tick(1) /\ Unobserved
  \/ \E i \in 1..MaxInflight : \E f \in Feed(1) : DetailOk(1, i, f.status, f.art) /\ Unobserved
  \/ \E t \in NextDeadline : ~Due /\ ~PollDue /\ Advance(t) /\ Unobserved

SpecRetry == InitRetry /\ [][NextRetry]_vars

----------------------------------------------------------------------------
\* The watcher of a call and the completion wait of the client that
\* dispatched it, fed the same responses: each detail request of the client
\* gets the answer that the watcher's request of the same second got. The
\* first MaxPolls polls are followed, one per second, which end before
\* either list cross-check of the success path can start.

\* The watcher's tick has ended and the client has not polled yet
Answered1 == inflight[1] = <<>> /\ ev.r = 1 /\ ev.op \in {"poll", "pollError"}

NextTwin ==
  \/ \E c \in Campaigns : ClStart(c)
  \/ ClSkip
  \/ ClDispatch(1)
  \/ SysRespId(1)
  \/ ClDispatchResult
  \/ ClWake
  \/ inflight[1] = <<>> /\ ~Answered1 /\ EndCall(1)
  \/ cl.pc = "wait" /\ cl.w.pollCount < MaxPolls /\ inflight[1] = <<>> /\ ~Answered1 /\ Tick(1) /\ Unobserved
  \/ \E f \in Feed(1) : DetailOk(1, 1, f.status, f.art) /\ Unobserved
  \/ DetailErr(1, 1, Unavailable) /\ Unobserved
  \/ \E items \in ProviderLists : ListErrOk(1, 1, items) /\ Unobserved
  \/ ListErrFail(1, 1) /\ Unobserved
  \/ Answered1 /\ ev.op = "poll" /\ ClPollOk(ev.status, ev.art)
  \/ Answered1 /\ ev.op = "pollError" /\ ClPollErr
  \/ \E t \in NextDeadline : /\ ~Due /\ inflight[1] = <<>> /\ ~Answered1
                              /\ (cl.pc = "sleep" \/ (cl.pc = "wait" /\ watch[1].ticks = 0))
                              /\ Advance(t) /\ Unobserved

SpecTwin == Init /\ [][NextTwin]_vars

----------------------------------------------------------------------------
\* A whole campaign in which every request is answered: the provider answers
\* the first MaxCalls dispatches with a call and every dispatch it is sent
\* may fail, the client's detail requests are answered at once, and what is
\* enabled is eventually run.

NextProgress ==
  \/ \E c \in Campaigns : ClStart(c)
  \/ ClEnd
  \/ ClSkip
  \/ \E r \in Slots : ClDispatch(r)
  \/ ClDispatchResult
  \/ ClWake
  \/ \E raw \in {<<>>, Queued, Ringing, Completed}, art \in BOOLEAN : ClPollOk(raw, art)
  \/ ClPollErr
  \/ ClTimeout
  \/ \E arr \in ProviderLists : ClResolveOk(arr)
  \/ ClResolveErr
  \/ ClResolveTimeout
  \/ ClRelease
  \/ ClReleaseFails
  \/ \E r \in Slots : SysRespId(r)
  \/ \E r \in Slots : SysRespNoId(r)
  \/ \E c \in Reqs : EndCall(c)
  \/ \E r \in Slots : DispatchRespErr(r, Unavailable.status) /\ Unobserved
  \/ \E r \in Reqs : TimerFire(r) /\ Unobserved
  \/ \E r \in Reqs : TicksOf(Reqs) < MaxGateTicks /\ inflight[r] = <<>> /\ Tick(r) /\ Unobserved
  \/ \E r \in Reqs, i \in 1..MaxInflight : \E f \in Feed(r) : DetailOk(r, i, f.status, f.art) /\ Unobserved
  \/ \E r \in Reqs, i \in 1..MaxInflight : DetailErr(r, i, Unavailable) /\ Unobserved
  \/ \E r \in Reqs, i \in 1..MaxInflight : \E items \in ProviderLists : ListErrOk(r, i, items) /\ Unobserved
  \/ \E r \in Reqs, i \in 1..MaxInflight : ListErrFail(r, i) /\ Unobserved
  \/ \E t \in NextDeadline : ~Due /\ ~PollDue /\ Advance(t) /\ Unobserved

\* The campaign has been started and the event loop runs what is ready
Running == cl.pc # "idle" /\ NextProgress

SpecProgress == InitRetry /\ [][NextProgress]_vars /\ WF_vars(Running)

----------------------------------------------------------------------------
\* A campaign client and another session that use the same agent: request 1
\* is the dispatch of the campaign's first call, request 2 a dispatch of the
\* other session. The campaign is followed up to its first release
\* notification.

\* The provider answers the other session's dispatch r with an identifier
OtherRespId(r) ==
  /\ DispatchRespId(r)
  /\ calls' = [calls EXCEPT ![r] = [st |-> "active", to |-> HolderNumber]]
  /\ UNCHANGED <<cl, excused>>

NextShared ==
  \/ \E c \in Campaigns : ClStart(c)
  \/ ClSkip
  \/ ClDispatch(1)
  \/ SysRespId(1)
  \/ ClDispatchResult
  \/ ClWake
  \/ \E raw \in {<<>>, Queued, Ringing, Completed}, art \in BOOLEAN : ClPollOk(raw, art)
  \/ ClPollErr
  \/ ClRelease
  \/ ClReleaseFails
  \/ DispatchAcquire(2, AGENT_ID) /\ Idle
  \/ DispatchBlocked(2, AGENT_ID) /\ Idle
  \/ OtherRespId(2)
  \/ \E c \in Reqs : EndCall(c)
  \/ \E r \in Reqs : TicksOf(Reqs) < MaxGateTicks /\ inflight[r] = <<>> /\ Tick(r) /\ Unobserved
  \/ \E r \in Reqs, i \in 1..MaxInflight : \E f \in Feed(r) : DetailOk(r, i, f.status, f.art) /\ Unobserved
  \/ \E t \in NextDeadline : ~Due /\ ~PollDue /\ Advance(t) /\ Unobserved

SpecShared == Init /\ [][NextShared]_vars

----------------------------------------------------------------------------
\* A campaign whose first dialed number was called before by the same agent:
\* request 1 is the dispatch of the earlier call, request 2 the dispatch of
\* the campaign, which the provider answers without identifier. The campaign
\* is followed up to the end of resolveCallLogId.

\* to_number of the earlier call: the first number that the campaigns dial
RedialNumber == <<"+", "5", "5", "1">>

\* The provider answers the earlier dispatch with an identifier
EarlierRespId ==
  /\ DispatchRespId(1)
  /\ calls' = [calls EXCEPT ![1] = [st |-> "active", to |-> RedialNumber]]
  /\ UNCHANGED <<cl, excused>>

\* The provider answers the campaign's dispatch without identifier: the call
\* is placed
RedialRespNoId ==
  /\ DispatchRespNoId(2)
  /\ calls' = [calls EXCEPT ![2] = [st |-> "active", to |-> PhoneOf(cl)]]
  /\ excused' = TRUE
  /\ UNCHANGED cl

NextRedial ==
  \/ cl.pc = "idle" /\ DispatchAcquire(1, AGENT_ID) /\ Idle
  \/ EarlierRespId
  \/ \E c \in Reqs : EndCall(c)
  \/ \E c \in Campaigns : calls[1].st # "none" /\ ClStart(c)
  \/ ClSkip
  \/ ClDispatch(2)
  \/ RedialRespNoId
  \/ ClDispatchResult
  \/ ClWake
  \/ \E arr \in ProviderLists : ClResolveOk(arr)
  \/ ClResolveErr
  \/ ClResolveTimeout
  \/ \E r \in Reqs : TimerFire(r) /\ Unobserved
  \/ TicksOf(Reqs) < MaxGateTicks /\ inflight[1] = <<>> /\ Tick(1) /\ Unobserved
  \/ \E i \in 1..MaxInflight : \E f \in Feed(1) : DetailOk(1, i, f.status, f.art) /\ Unobserved
  \/ \E t \in NextDeadline : ~Due /\ Advance(t) /\ Unobserved

SpecRedial == Init /\ [][NextRedial]_vars

----------------------------------------------------------------------------
\* Properties of the gate

\* The entry of the agent of dispatch r is the one of r's call
HoldsCall(r) == agentLocks[req[r].agent].present /\ agentLocks[req[r].agent].currentCallId = r

\* Steps that are callbacks of the watcher of dispatch r
WatcherStep(r) ==
  /\ ev'.r = r
  /\ \/ ev'.op \in {"poll", "pollError", "list", "listE", "tick"}
     \/ ev'.op = "timer" /\ timers[r].kind = "failsafe"

\* C1: whenever the lock table holds an entry for an agent, whatever its
\* fields, a dispatch request for that agent is not forwarded to the provider
\* (it is answered 409)
C1_EntryAlwaysRejects ==
  [][ev'.op = "forward" => ~agentLocks[ev'.agent].present]_vars

\* C2: between two releases of an agent at most one dispatch request for it
\* is admitted and forwarded, and as long as the admitted one is not released
\* the agent's entry rejects every other request
C2_Exclusive ==
  \A k \in AgentKeys : grants[k] <= 1 /\ (grants[k] = 1 => Blocks(agentLocks[k]))

\* C2 witness: a second request was rejected while the first one, admitted,
\* still awaits the provider's answer
C2_Witness ==
  \E r1, r2 \in Reqs :
    /\ req[r1].pc = "sent" /\ req[r2].pc = "done" /\ req[r2].status = 409
    /\ req[r1].agent = req[r2].agent /\ grants[req[r1].agent] = 1

\* C3: with one campaign client, the gate and a provider that reports a
\* Final status only for ended calls, a dispatch is forwarded to the provider
\* only when no earlier call of the agent is still active, unless a 10-minute
\* timeout, an error fallback or a no-identifier fallback has occurred.
C3_NoOverlap ==
  [][ev'.op = "forward" => (excused \/ \A c \in Reqs : calls[c].st # "active")]_vars

\* C4: every lock entry created by an accepted dispatch is eventually removed
\* by the backend itself
C4_EveryLockRemoved ==
  \A k \in AgentKeys : agentLocks[k].present ~> ~agentLocks[k].present

\* C5: once the entry of a watched call is gone, the watcher's interval and
\* failsafe timer are cancelled and none of its callbacks changes the agent's
\* lock entry any more
C5_NoFireAfterRelease ==
  /\ [](\A r \in Reqs : (watch[r].started /\ ~agentLocks[req[r].agent].present)
                          => (ivl[r] # "on" /\ timers[r].st # "pending"))
  /\ [][\A r \in Reqs : (watch[r].started /\ ~HoldsCall(r) /\ WatcherStep(r))
                          => agentLocks' = agentLocks]_vars

\* C6: every running interval and every pending failsafe timer of an agent is
\* the one recorded in the agent's current lock entry
C6_OneWatcherPerAgent ==
  \A r \in Reqs :
    /\ ivl[r] = "on" => (agentLocks[req[r].agent].present /\ agentLocks[req[r].agent].interval = r)
    /\ (timers[r].st = "pending" /\ timers[r].kind = "failsafe")
         => (agentLocks[req[r].agent].present /\ agentLocks[req[r].agent].timer = r)

----------------------------------------------------------------------------
\* Properties of the watcher

\* C7 as claimed: a successful detail poll without end artifacts of the call
\* that holds the lock removes the lock in its tick if its status is in the
\* Final set, and otherwise leaves the lock held
C7_HeldUntilFinalPoll ==
  [][(ev'.op = "poll" /\ ~ev'.art /\ HoldsCall(ev'.r))
       => (agentLocks'[ev'.agent].present <=> ev'.status \notin FINAL_STATUSES)]_vars

\* C7 amended: the same, where a tick whose list cross-check finds the call
\* with a Final status also removes the lock
C7_HeldUntilFinalPollOrList ==
  [][(ev'.op = "poll" /\ ~ev'.art /\ HoldsCall(ev'.r))
       => (agentLocks'[ev'.agent].present
             <=> (ev'.status \notin FINAL_STATUSES /\ ev'.why # "final_status_list"))]_vars

\* C7 witness: the fourth poll in a row is the first with a Final status and
\* its tick has removed the lock
C7_Witness ==
  /\ ev.op = "poll" /\ ev.why = "final_status" /\ ev.removed /\ ~ev.art
  /\ watch[ev.r].polls = 4 /\ watch[ev.r].ticks = 4 /\ watch[ev.r].seenOngoing
  /\ ~agentLocks[ev.agent].present

\* C8: a tick whose detail fetch failed with a server or network error for
\* a call seen Ongoing leaves no lock once the streak is 10 or 45 s have
\* passed since the last successful poll
C8_FallbackFires ==
  [][(/\ ev'.op = "pollError" /\ ev'.code = 5
      /\ HoldsCall(ev'.r)
      /\ watch'[ev'.r].seenOngoing
      /\ \/ watch'[ev'.r].consecutiveErrors >= ERROR_STREAK_LIMIT
         \/ (now' - watch'[ev'.r].lastSuccessAt) >= ERROR_SINCE_MS)
       => ~agentLocks'[ev'.agent].present]_vars

\* C9: the failsafe of a watcher is never pending later than 10 minutes after
\* the watcher started; it goes away only by an earlier release of the agent
\* or by firing, and it fires at exactly 10 minutes and leaves no lock
C9_Failsafe ==
  /\ [](\A r \in Reqs : watch[r].started =>
          /\ timers[r].kind = "failsafe"
          /\ timers[r].st = "pending" => now <= watch[r].startedAt + MAX_WATCH_MS
          /\ timers[r].st # "pending" => relSince[r])
  /\ [][\A r \in Reqs : (watch[r].started /\ timers[r].st = "pending" /\ timers'[r].st = "fired")
          => /\ now = watch[r].startedAt + MAX_WATCH_MS
             /\ ev'.why = "timeout"
             /\ ~agentLocks'[req[r].agent].present]_vars

\* C9 witness: the failsafe has removed the lock of a call whose polls were
\* answered with Ongoing statuses only
C9_Witness ==
  /\ ev.op = "timer" /\ ev.why = "timeout" /\ ev.removed
  /\ watch[ev.r].seenOngoing /\ watch[ev.r].polls >= 1
  /\ now = watch[ev.r].startedAt + MAX_WATCH_MS

C11_ReleaseIdempotent ==
  [][ev'.op = "release" =>
       LET k == ev'.agent
           lock == agentLocks[k]
       IN
       /\ ev'.code = 200 /\ k \in AgentKeys
       /\ ~agentLocks'[k].present
       /\ (lock.present /\ lock.timer # 0) => timers'[lock.timer].st # "pending"
       /\ (lock.present /\ lock.interval # 0) => ivl'[lock.interval] # "on"
       /\ \A j \in AgentKeys \ {k} : agentLocks'[j] = agentLocks[j]
       /\ ReleasedLocks(agentLocks', k) = agentLocks'
       /\ ReleasedTimers(agentLocks', timers', k) = timers'
       /\ ReleasedIvl(agentLocks', ivl', k) = ivl']_vars

\* C11 witness: a release request has removed the entry of a watched call
\* and cancelled its failsafe and its interval
C11_Witness ==
  /\ ev.op = "release" /\ ev.removed
  /\ \E r \in Reqs : watch[r].started /\ timers[r].st = "cleared" /\ ivl[r] = "cleared"

\* C12: a dispatch answered 409 carries the call identifier stored in the
\* agent's entry, which is the identifier of an answered dispatch of that
\* agent; it carries none while no dispatch of the agent has been answered
\* with an identifier; the rejected request changes no entry, timer,
\* interval or watcher
C12_ConflictReportsCurrent ==
  [][(ev'.op = "dispatch" /\ ev'.code = 409) =>
       LET k == ev'.agent
           r == ev'.r
           cur == req'[r].cur
           answered == {x \in Reqs : req[x].agent = k /\ req[x].pc = "done" /\ req[x].callLogId # 0}
       IN
       /\ req'[r].status = 409 /\ ev'.cur = cur
       /\ cur = agentLocks[k].currentCallId
       /\ cur # 0 => \E x \in answered : req[x].callLogId = cur
       /\ answered = {} => cur = 0
       /\ UNCHANGED <<agentLocks, timers, ivl, watch, inflight>>]_vars

\* C12 witness: a request was rejected with the identifier of the call that
\* holds the agent
C12_Witness ==
  /\ ev.op = "dispatch" /\ ev.code = 409 /\ ev.cur # 0
  /\ HoldsCall(ev.cur) /\ req[ev.r].cur = ev.cur

\* C13: a failed detail fetch of a watcher that has not seen an Ongoing
\* status, or one that failed with an error that is neither a 5xx nor a
\* network error, starts no list request and leaves the lock, the timers and
\* the interval as they are; every list request of the error path and every
\* release by the error fallback belongs to a watcher that has seen an
\* Ongoing status and to a 5xx or network error
C13_FallbackOnlyWhenActive ==
  [][ev'.op \in {"pollError", "listE"} =>
       LET r == ev'.r IN
       /\ (ev'.op = "listE" \/ ev'.why = "api_error_fallback")
             => (watch[r].seenOngoing /\ ev'.code = 5)
       /\ (~watch[r].seenOngoing \/ ev'.code = 4)
             => /\ ev'.op = "pollError" /\ ev'.why = ""
                /\ UNCHANGED <<agentLocks, timers, ivl>>
                /\ \A i \in DOMAIN inflight'[r] : inflight'[r][i].phase # "listE"]_vars

\* C13 witness: 45 s after the last successful poll a detail fetch of a
\* watcher that never saw an Ongoing status fails with a 5xx and the lock
\* of its call is still held
C13_Witness ==
  /\ ev.op = "pollError" /\ ev.code = 5 /\ ev.why = ""
  /\ ~watch[ev.r].seenOngoing /\ watch[ev.r].polls >= 1
  /\ now - watch[ev.r].lastSuccessAt >= ERROR_SINCE_MS
  /\ HoldsCall(ev.r)

\* C14: a dispatch request without token is answered 401 in the step in
\* which it arrives; it is never passed to the provider and it changes no
\* lock entry, timer, interval, watcher or other request, whether the agent
\* is locked or free
C14_NoTokenNoEffect ==
  [][(ev'.op = "dispatch" /\ ev'.code = 401) =>
       LET r == ev'.r IN
       /\ req[r].pc = "new" /\ req'[r].pc = "done" /\ req'[r].status = 401
       /\ \A x \in Reqs \ {r} : req'[x] = req[x]
       /\ UNCHANGED <<agentLocks, timers, ivl, watch, inflight, grants, now>>]_vars

\* C14 witness: a request without token was answered 401 while the agent
\* was free, and the agent is still free
C14_Witness ==
  /\ ev.op = "dispatch" /\ ev.code = 401 /\ req[ev.r].status = 401
  /\ ~agentLocks[ev.agent].present
  /\ \E x \in Reqs : req[x].pc = "done" /\ req[x].status = 200 /\ req[x].agent = ev.agent

\* The dispatches that the gate has received for agent k
RequestsOf(k) == {r \in Reqs : req[r].pc # "new" /\ req[r].agent = k}

\* C15: a step taken for one agent (dispatch, provider answer, watcher
\* callback, timer, release) changes neither the entry of another agent nor
\* the timers, intervals, watcher state and pending callbacks of the other
\* agent's dispatches; a dispatch is forwarded exactly when the entry of its
\* own agent does not block, whatever the other agent's entry is
C15_AgentsIndependent ==
  [][ev'.op \notin {"time", "init"} =>
       /\ \A k \in AgentKeys \ {ev'.agent} :
             /\ agentLocks'[k] = agentLocks[k]
             /\ grants'[k] = grants[k]
             /\ \A r \in RequestsOf(k) :
                   /\ timers'[r] = timers[r] /\ ivl'[r] = ivl[r]
                   /\ watch'[r] = watch[r] /\ inflight'[r] = inflight[r]
       /\ ev'.op = "forward" => ~Blocks(agentLocks[ev'.agent])
       /\ (ev'.op = "dispatch" /\ ev'.code = 409) => Blocks(agentLocks[ev'.agent])]_vars

\* C15 witness: a dispatch of one agent was forwarded while the other agent
\* was locked by a watched call
C15_Witness ==
  /\ ev.op = "forward"
  /\ \E k \in AgentKeys \ {ev.agent} :
        /\ agentLocks[k].present /\ agentLocks[k].currentCallId # 0
        /\ ivl[agentLocks[k].currentCallId] = "on"

\* C16: every token of the Final set, as listed, in capitals or with white
\* space around it, normalises to the token and passes the final test with
\* and without end artifacts; a tick whose detail status is in the Final set
\* ends with the agent's lock removed by that tick
C16_FinalTokensRelease ==
  /\ [](\A tok \in FINAL_STATUSES : \A v \in Variants(tok) : \A art \in BOOLEAN :
          NormStatus(v) = tok /\ IsFinal(NormStatus(v), art))
  /\ [][(ev'.op = "poll" /\ ev'.status \in FINAL_STATUSES) =>
          /\ ev'.why \in {"final_status", "final_status_list"}
          /\ ~agentLocks'[ev'.agent].present
          /\ ivl'[ev'.r] # "on" /\ timers'[ev'.r].st # "pending"]_vars

\* C16 witness: the first poll of a watcher carried a Final status without
\* end artifacts and removed the lock
C16_Witness ==
  /\ ev.op = "poll" /\ ev.status \in FINAL_STATUSES /\ ~ev.art
  /\ ev.why = "final_status" /\ ev.removed
  /\ watch[ev.r].polls = 1 /\ ~agentLocks[ev.agent].present

\* C17 as claimed: a tick whose detail status is in the Ongoing set leaves
\* seenOngoing set; with an end artifact it removes the lock, without one it
\* keeps the lock
C17_OngoingTokens ==
  [][(ev'.op = "poll" /\ ev'.status \in ONGOING_STATUSES) =>
       /\ watch'[ev'.r].seenOngoing /\ watch'[ev'.r].seenOngoingAt # 0
       /\ ev'.art => ~agentLocks'[ev'.agent].present
       /\ ~ev'.art => (agentLocks' = agentLocks /\ HoldsCall(ev'.r))]_vars

\* C17 amended: the same, where without an end artifact the lock is kept
\* unless the list cross-check of that tick found the call with a Final
\* status
C17_OngoingTokensOrList ==
  [][(ev'.op = "poll" /\ ev'.status \in ONGOING_STATUSES) =>
       /\ watch'[ev'.r].seenOngoing /\ watch'[ev'.r].seenOngoingAt # 0
       /\ ev'.art => ~agentLocks'[ev'.agent].present
       /\ (~ev'.art /\ ev'.why # "final_status_list") => (agentLocks' = agentLocks /\ HoldsCall(ev'.r))
       /\ (~ev'.art /\ ev'.why = "final_status_list") => ~agentLocks'[ev'.agent].present]_vars

\* C17 witness: a poll carried an Ongoing status without end artifacts more
\* than 5 s after the first one, and the lock is kept
C17_Witness ==
  /\ ev.op = "poll" /\ ev.status \in ONGOING_STATUSES /\ ~ev.art /\ ev.why = ""
  /\ HoldsCall(ev.r) /\ watch[ev.r].seenOngoing /\ watch[ev.r].polls = 2
  /\ now - watch[ev.r].seenOngoingAt >= LIST_AFTER_ONGOING_MS

\* C18: the client never has two dispatch requests outstanding; it posts a
\* dispatch only while none is outstanding and no completion wait runs, for
\* row i only when rows 1..i-1 each have their one result, in list order;
\* and it leaves row i only to row i+1, with the result of row i recorded
C18_Sequential ==
  /\ [](cl.outstanding <= 1)
  /\ [](\A j \in 1..Len(cl.results) : cl.results[j].index = j)
  /\ [][cl'.outstanding > cl.outstanding =>
          /\ cl.outstanding = 0 /\ cl.w = NoWait
          /\ cl.pc \in {"loop", "dispatch"}
          /\ cl'.i = cl.i /\ Len(cl.results) = cl.i - 1
          /\ \A j \in 1..(cl.i - 1) :
                cl.results[j].status \in {"completed", "unknown", "no_id", "failed", "skipped"}]_vars
  /\ [][(cl.pc # "idle" /\ cl'.i # cl.i) =>
          /\ cl'.i = cl.i + 1 /\ cl'.pc = "loop" /\ cl'.outstanding = 0
          /\ Len(cl'.results) = cl.i /\ cl'.w = NoWait]_vars

\* C18 witness: the dispatch of the second row is outstanding after the call
\* of the first row was confirmed complete
C18_Witness ==
  /\ cl.pc = "awaitDispatch" /\ cl.i = 2 /\ cl.outstanding = 1
  /\ Len(cl.results) = 1 /\ cl.results[1].status = "completed"

\* The client is in the wait of the 409 branch of dispatchSingleCall
BlockedWaiting(c) == c.w.caller = "retry" \/ (c.pc = "sleep" /\ c.after = "blocked")

\* C19: on a 409 answer the client waits for the reported call, or 15 s when
\* none is reported, with the row unchanged; when that wait ends it posts the
\* dispatch of the same row again if fewer than 3 retries were made, and
\* otherwise records the row as failed and moves to the next row; no dispatch
\* is posted with more than 3 retries behind it
C19_RetryAtMostThrice ==
  /\ [](cl.retry <= MAX_RETRY)
  /\ [][(cl.pc = "awaitDispatch" /\ cl'.pc # "awaitDispatch" /\ req[cl.r].status = 409) =>
          /\ cl'.i = cl.i /\ cl'.retry = cl.retry /\ cl'.results = cl.results
          /\ IF req[cl.r].cur # 0
             THEN cl'.pc = "wait" /\ cl'.w.callLogId = req[cl.r].cur /\ cl'.w.caller = "retry"
             ELSE cl'.pc = "sleep" /\ cl'.after = "blocked" /\ cl'.wakeAt = now + BLOCKED_DELAY_MS]_vars
  /\ [][(BlockedWaiting(cl) /\ ~BlockedWaiting(cl')) =>
          IF cl.retry < MAX_RETRY
          THEN /\ cl'.pc = "dispatch" /\ cl'.i = cl.i /\ cl'.retry = cl.retry + 1
               /\ cl'.results = cl.results /\ cl'.failed = cl.failed
          ELSE /\ cl'.pc = "loop" /\ cl'.i = cl.i + 1 /\ cl'.retry = 0
               /\ cl'.failed = cl.failed + 1
               /\ cl'.results = Append(cl.results, [index |-> cl.i, status |-> "failed"])]_vars
  /\ [][(BlockedWaiting(cl) /\ BlockedWaiting(cl')) =>
          (cl'.i = cl.i /\ cl'.retry = cl.retry /\ cl'.results = cl.results)]_vars

\* C19 witness: the first row was rejected four times and recorded as failed,
\* and the dispatch of the second row is outstanding
C19_Witness ==
  /\ cl.pc = "awaitDispatch" /\ cl.i = 2 /\ cl.r = 6
  /\ \A r \in 2..5 : req[r].pc = "done" /\ req[r].status = 409
  /\ Len(cl.results) = 1 /\ cl.results[1] = [index |-> 1, status |-> "failed"]

\* C20: a row that ends as completed, unknown or no_id is followed by the
\* release notification, and whether or not that notification succeeds the
\* client then sleeps DELAY_AFTER_DISCONNECT_MS before it goes on to the next
\* row
C20_ReleaseThenCooldown ==
  /\ [][(Len(cl'.results) > Len(cl.results)
          /\ cl'.results[Len(cl'.results)].status \in {"completed", "unknown", "no_id"})
         => cl'.pc = "release"]_vars
  /\ [][(cl.pc = "release" /\ cl'.pc # "release") =>
          /\ cl'.pc = "sleep" /\ cl'.after = "next"
          /\ cl'.wakeAt = now + DELAY_AFTER_DISCONNECT_MS
          /\ cl'.i = cl.i]_vars

----------------------------------------------------------------------------
\* Properties of the client's completion wait

\* C21: when the client's poll gets the answer the watcher's tick got, the
\* client leaves its wait with the call reported finished exactly if the
\* watcher removed the lock in that tick, and a successful poll ends the wait
\* only with a status of the Final set or with end artifacts
C21_SameHeuristics ==
  /\ [][(Answered1 /\ cl.pc = "wait" /\ cl'.pc # "wait") =>
          ((cl'.pc = "release") <=> ev.removed)]_vars
  /\ [][(Answered1 /\ ev.op = "poll" /\ cl.pc = "wait" /\ cl'.pc = "release") =>
          (ev.status \in FINAL_STATUSES \/ ev.art)]_vars

\* C22: a started campaign reaches its end, and at its end every row has
\* exactly one result, in list order, and successful + failed is the number
\* of rows
C22_CampaignEnds ==
  /\ (cl.pc # "idle") ~> (cl.pc = "finished")
  /\ [](cl.pc = "finished" =>
          /\ Len(cl.results) = Len(cl.customers)
          /\ \A j \in 1..Len(cl.results) : cl.results[j].index = j
          /\ cl.successful + cl.failed = Len(cl.customers))

\* C22 witness: the campaign has ended with the first row timed out and the
\* second row failed
C22_Witness ==
  /\ cl.pc = "finished" /\ Len(cl.results) = 2
  /\ cl.results[1].status = "unknown" /\ cl.results[2].status = "failed"
  /\ cl.successful = 1 /\ cl.failed = 1

\* C23: a 200 answer with an identifier starts the completion wait on it at
\* once; one without starts the list polling, which asks only within
\* RESOLVE_MAX_WAIT_MS of its start, sleeps RESOLVE_INTERVAL_MS after a pass
\* that found no entry for the dialed number, and starts the completion wait
\* on the entry it found; when the time is up the client sleeps
\* NO_ID_DELAY_MS without any completion wait and then records no_id
C23_ResolveIdentifier ==
  /\ [][(cl.pc = "awaitDispatch" /\ cl'.pc # "awaitDispatch" /\ req[cl.r].status = 200) =>
          IF req[cl.r].callLogId # 0
          THEN /\ cl'.pc = "wait" /\ cl'.w.callLogId = req[cl.r].callLogId
               /\ cl'.w.caller = "campaign" /\ cl'.attempt = cl.attempt
          ELSE cl'.pc = "resolve" /\ cl'.resolveStart = now /\ cl'.w = NoWait]_vars
  /\ [][(cl.pc = "resolve" /\ cl'.pc # "resolve") =>
          \/ /\ cl'.pc = "wait" /\ cl'.w.caller = "campaign"
             /\ now - cl.resolveStart < RESOLVE_MAX_WAIT_MS
             /\ cl'.w.callLogId \in PlacedCalls
             /\ normalizePhone(calls[cl'.w.callLogId].to) = normalizePhone(PhoneOf(cl))
          \/ /\ cl'.pc = "sleep" /\ cl'.after = "resolve" /\ cl'.w = NoWait
             /\ now - cl.resolveStart < RESOLVE_MAX_WAIT_MS
             /\ cl'.wakeAt = now + RESOLVE_INTERVAL_MS
          \/ /\ cl'.pc = "sleep" /\ cl'.after = "noid" /\ cl'.w = NoWait
             /\ now - cl.resolveStart >= RESOLVE_MAX_WAIT_MS
             /\ cl'.wakeAt = now + NO_ID_DELAY_MS
             /\ cl'.results = cl.results /\ cl'.i = cl.i]_vars
  /\ [][(cl.pc = "sleep" /\ cl.after = "noid" /\ cl'.pc # "sleep") =>
          /\ cl'.pc = "release" /\ cl'.w = NoWait /\ cl'.i = cl.i
          /\ cl'.results = Append(cl.results, [index |-> cl.i, status |-> "no_id"])]_vars

\* C23 witness: no entry was found in 60 s, the 30 s have passed and the row
\* is recorded as no_id
C23_Witness ==
  /\ cl.pc = "release" /\ cl.results # <<>>
  /\ cl.results[Len(cl.results)].status = "no_id"
  /\ now - cl.resolveStart >= RESOLVE_MAX_WAIT_MS + NO_ID_DELAY_MS
  /\ cl.attempt > 0

\* C24: when the completion wait of a dispatched row finds MAX_POLL_TIME
\* used up it returns without a decision: the row is recorded as unknown and
\* counted as successful, not failed, and after the release notification the
\* loop goes on to the next row
C24_TimeoutIsUnknown ==
  /\ [][(cl.pc = "wait" /\ cl.w.caller = "campaign" /\ cl' # cl
          /\ now - cl.w.startTime >= MAX_POLL_TIME) =>
          /\ cl'.pc = "release" /\ cl'.i = cl.i /\ cl'.w = NoWait
          /\ cl'.results = Append(cl.results, [index |-> cl.i, status |-> "unknown"])
          /\ cl'.failed = cl.failed /\ cl'.successful = cl.successful + 1]_vars
  /\ [][(cl.pc = "release" /\ cl'.pc # "release"
          /\ cl.results[Len(cl.results)].status = "unknown") =>
          (cl'.pc = "loop" /\ cl'.i = cl.i + 1 /\ cl'.results = cl.results)]_vars

\* C24 witness: the first row timed out after 10 minutes, is recorded as
\* unknown, and the loop is at the second row
C24_Witness ==
  /\ cl.pc = "loop" /\ cl.i = 2 /\ cl.failed = 0 /\ cl.successful = 1
  /\ cl.results = <<[index |-> 1, status |-> "unknown"]>>
  /\ now >= StartTime + MAX_POLL_TIME

----------------------------------------------------------------------------
\* Properties of the lock entry

\* C25: an agent that has no lock entry gets one only by the acceptance of a
\* dispatch request; the return of the provider's dispatch call leaves an
\* agent without entry without entry
C25_CreatedOnlyByAcceptance ==
  [][\A k \in AgentKeys :
        (~agentLocks[k].present /\ agentLocks'[k].present) => ev'.op = "forward"]_vars

\* C26: the release notification that the client sends at the end of its
\* call removes a lock entry only if the entry is that of this call: its
\* currentCallId is the identifier the client's dispatch was answered with,
\* and no other dispatch of the agent is with the provider
C26_ReleaseScoped ==
  [][(cl.pc = "release" /\ ev'.op = "release" /\ ev'.removed) =>
       /\ agentLocks[ev'.agent].currentCallId = req[cl.r].callLogId
       /\ \A x \in Reqs \ {cl.r} : ~(req[x].pc = "sent" /\ req[x].agent = ev'.agent)]_vars

----------------------------------------------------------------------------
\* Properties of the watcher's list cross-check and of its counters

\* C27: a watcher sends a list request, on the success path or on the error
\* path, only when seenOngoing is set, 5 s or more have passed since
\* seenOngoingAt and 3 s or more since its previous list request
C27_ListThrottled ==
  [][ev'.op \in {"list", "listE"} =>
       /\ watch'[ev'.r].seenOngoing /\ watch'[ev'.r].seenOngoingAt # 0
       /\ now - watch'[ev'.r].seenOngoingAt >= LIST_AFTER_ONGOING_MS
       /\ now - watch[ev'.r].lastListCheckAt >= LIST_THROTTLE_MS
       /\ watch'[ev'.r].lastListCheckAt = now]_vars

\* The list has an entry of call callLogId, by either field, with a status of
\* the Final set
HasFinalEntry(items, callLogId) ==
  \E j \in 1..Len(items) :
     /\ items[j].id = callLogId \/ items[j].call_log_id = callLogId
     /\ NormStatus(items[j].status) \in FINAL_STATUSES

C29_OngoingMonotone ==
  /\ [](\A r \in Reqs : watch[r].seenOngoing <=> watch[r].seenOngoingAt # 0)
  /\ [][\A r \in Reqs :
          /\ watch[r].seenOngoing => watch'[r].seenOngoing
          /\ watch[r].seenOngoingAt # 0 => watch'[r].seenOngoingAt = watch[r].seenOngoingAt
          /\ (~watch[r].seenOngoing /\ watch'[r].seenOngoing) =>
                /\ watch'[r].seenOngoingAt = now
                /\ ev'.op = "poll" /\ ev'.r = r /\ ev'.status \in ONGOING_STATUSES
                /\ watch'[r].polls = watch[r].polls + 1]_vars
  /\ [][(ev'.op = "poll" /\ ev'.status \in ONGOING_STATUSES) => watch'[ev'.r].seenOngoing]_vars

\* C29 witness: a watcher that saw an Ongoing status has since had a
\* successful poll with another status, two seconds or more later
C29_Witness ==
  \E r \in Reqs :
    /\ watch[r].seenOngoing /\ watch[r].seenOngoingAt # 0
    /\ now - watch[r].seenOngoingAt >= 2 * INTERVAL_MS
    /\ watch[r].polls >= 2 /\ watch[r].lastSuccessAt > watch[r].seenOngoingAt
    /\ ev.op = "poll" /\ ev.r = r /\ ev.status \notin ONGOING_STATUSES

\* The callbacks of watcher r whose detail request is not answered yet
DetailPending(r) == Cardinality({i \in DOMAIN inflight[r] : inflight[r][i].phase = "detail"})

\* C30: the answer to a detail request sets consecutiveErrors to 0 when it is
\* a success and adds one when it is a failure; no other step, the answer to
\* a list request included, changes it; so it never exceeds the number of
\* failed detail requests of the watcher, and equals it while no detail
\* request has succeeded
C30_ErrorStreak ==
  /\ [](\A r \in Reqs :
          /\ watch[r].consecutiveErrors <= watch[r].ticks - watch[r].polls - DetailPending(r)
          /\ watch[r].polls = 0 => watch[r].consecutiveErrors = watch[r].ticks - DetailPending(r))
  /\ [][\A r \in Reqs :
          /\ watch'[r].polls # watch[r].polls => watch'[r].consecutiveErrors = 0
          /\ (DetailPending(r)' < DetailPending(r) /\ watch'[r].polls = watch[r].polls) =>
                watch'[r].consecutiveErrors = watch[r].consecutiveErrors + 1
          /\ (DetailPending(r)' >= DetailPending(r) /\ watch[r].started) =>
                watch'[r].consecutiveErrors = watch[r].consecutiveErrors]_vars

\* C30 witness: a watcher has one failed detail request since its last
\* successful one and had failed ones before that
C30_Witness ==
  \E r \in Reqs :
    /\ watch[r].consecutiveErrors = 1 /\ watch[r].polls >= 1
    /\ watch[r].ticks - watch[r].polls - DetailPending(r) >= 2
    /\ ev.op = "pollError" /\ ev.r = r

\* C31 as claimed: the answer to a detail request with a status that is
\* empty or in neither set, and without end artifacts, leaves seenOngoing,
\* seenOngoingAt and the lock as they are, and the tick of such a poll ends
\* with the lock as it was
C31_UnknownKeepsLock ==
  /\ [][\A i \in 1..MaxInflight : \A raw \in RawStatuses :
          (/\ DetailOk(1, i, raw, FALSE) /\ Idle
           /\ NormStatus(raw) \notin FINAL_STATUSES \cup ONGOING_STATUSES) =>
             /\ watch'[1].seenOngoing = watch[1].seenOngoing
             /\ watch'[1].seenOngoingAt = watch[1].seenOngoingAt
             /\ agentLocks' = agentLocks]_vars
  /\ [][(/\ ev'.op = "poll" /\ ~ev'.art
         /\ ev'.status \notin FINAL_STATUSES \cup ONGOING_STATUSES) =>
          agentLocks' = agentLocks]_vars

\* C31 amended: the same, where the tick of such a poll ends with the lock
\* as it was unless its list cross-check, which is made only after an
\* earlier poll with an Ongoing status, found the call with a Final status
C31_UnknownKeepsLockOrList ==
  /\ [][\A i \in 1..MaxInflight : \A raw \in RawStatuses :
          (/\ DetailOk(1, i, raw, FALSE) /\ Idle
           /\ NormStatus(raw) \notin FINAL_STATUSES \cup ONGOING_STATUSES) =>
             /\ watch'[1].seenOngoing = watch[1].seenOngoing
             /\ watch'[1].seenOngoingAt = watch[1].seenOngoingAt
             /\ agentLocks' = agentLocks]_vars
  /\ [][(/\ ev'.op = "poll" /\ ~ev'.art
         /\ ev'.status \notin FINAL_STATUSES \cup ONGOING_STATUSES) =>
          IF ev'.why = "final_status_list"
          THEN watch[ev'.r].seenOngoing /\ ~agentLocks'[ev'.agent].present
          ELSE agentLocks' = agentLocks]_vars

\* C31 witness: four polls in a row had a status of neither set, the last one
\* not empty; seenOngoing is not set and the lock is held
C31_Witness ==
  /\ ev.op = "poll" /\ ev.r = 1 /\ ~ev.art /\ ev.status # <<>>
  /\ ev.status \notin FINAL_STATUSES \cup ONGOING_STATUSES
  /\ watch[1].polls = 4 /\ watch[1].ticks = 4 /\ ~watch[1].seenOngoing /\ HoldsCall(1)

\* C32: when the provider's dispatch call fails, the request is answered
\* with the provider's status (500 without a provider response), and after
\* the answer no lock entry remains for the agent
C32_FailedDispatchFreesAgent ==
  [][ev'.op = "dispatchError" =>
       /\ ev'.code \in (ProviderErrors \ {0}) \cup {500}
       /\ req'[ev'.r].status = ev'.code
       /\ ~agentLocks'[ev'.agent].present]_vars

\* C33: the ticks of one watcher are processed one at a time: at no moment
\* is more than one tick of a watcher waiting for its detail or list
\* response, and no tick starts while an earlier one of its watcher waits
C33_OneTickAtATime ==
  /\ \A r \in Reqs : Len(inflight[r]) <= 1
  /\ (ev.op = "tick" => Len(inflight[ev.r]) = 1)

\* C34: the identifier that resolveCallLogId takes from the agent's call
\* list, after a dispatch answered without identifier, is the identifier of
\* the call that this dispatch created
C34_ResolvesOwnCall ==
  [][(cl.pc = "resolve" /\ cl'.pc = "wait") =>
       /\ calls[cl.r].st # "none"
       /\ cl'.w.callLogId = cl.r]_vars

\* C35: the client's Final set is the server's Final set and the client's
\* Ongoing set is the server's Ongoing set; server and client normalise a
\* status by lower-casing and trimming it, so that every spelling of a
\* status is classified alike by both, as is the status of every poll of
\* the watcher
C35_SameVocabulary ==
  /\ [](/\ ClFINAL_STATUSES = FINAL_STATUSES
        /\ ClONGOING_STATUSES = ONGOING_STATUSES
        /\ \A raw \in TokenVariants \cup RawStatuses :
              /\ NormStatus(raw) = Trim(ToLowerCase(raw))
              /\ ClNormStatus(raw) = Trim(ToLowerCase(raw))
              /\ NormStatus(raw) \in FINAL_STATUSES <=> ClNormStatus(raw) \in ClFINAL_STATUSES
              /\ NormStatus(raw) \in ONGOING_STATUSES <=> ClNormStatus(raw) \in ClONGOING_STATUSES)
  /\ [][ev'.op = "poll" =>
          /\ ClNormStatus(ev'.status) = ev'.status
          /\ ev'.status \in FINAL_STATUSES <=> ev'.status \in ClFINAL_STATUSES
          /\ ev'.status \in ONGOING_STATUSES <=> ev'.status \in ClONGOING_STATUSES]_vars

\* C35 witness: the watcher has had a poll with a status of the client's
\* Ongoing set and then one with a status of the client's Final set, which
\* removed the lock
C35_Witness ==
  /\ ev.op = "poll" /\ ev.r = 1 /\ ev.status \in ClFINAL_STATUSES /\ ~ev.art
  /\ watch[1].seenOngoing /\ watch[1].polls = 2 /\ ev.removed

====
